---- MODULE Spec2Model ----
(***************************************************************************)
(* A model of src/scripts/large_ollama.py: the query optimizer, the search *)
(* client with its cache, result scoring, ranking and deduplication, and   *)
(* the orchestration that merges file and search context into a prompt.    *)
(*                                                                         *)
(* A text (a Python str) is the sequence of the code points of its         *)
(* characters: <<97, 105>> is "ai", and <<\H6700, \H65b0>> the word        *)
(* saishin ("latest").  The texts are those that UTF-8 can encode: no      *)
(* code point is a surrogate.  The character tables are those of Unicode   *)
(* 14.0, which CPython 3.11 carries.  A relevance score is a Python float, *)
(* an IEEE 754 double: the record [m, e] stands for m * 2^e, with m of 53  *)
(* bits, and every sum and product is rounded as the machine rounds it.    *)
(* Time is in whole seconds.                                               *)
(***************************************************************************)
EXTENDS Integers, Sequences, FiniteSets, TLC

VARIABLES
    now,        \* the wall clock (datetime.now()), in seconds
    cache,      \* GoogleSearchAPI.cache: cache key -> [results, timestamp]
    google_search, \* whether the system was built with an API key (a search client)
    pc,         \* position of the single thread of control
    call,       \* arguments of the operation in progress or last finished
    ret,        \* value returned by the last finished operation
    http,       \* HTTP exchanges of the operation in progress / last finished
    sr,         \* locals of search_and_rank
    gr,         \* locals of generate_response
    calls       \* number of top-level operations started so far

vars == <<now, cache, google_search, pc, call, ret, http, sr, gr, calls>>

-----------------------------------------------------------------------------
(* Bounds of the model *)

\* top-level operations started in one behaviour
MaxCalls == 2
\* lines of a streamed response
MaxLines == 3
\* prompts of the trigger check are built from at most this many fragments
MaxFrags == 2

-----------------------------------------------------------------------------
(* Text *)

\* a sequence given as a function, with every element evaluated once
Tuple(f) == f \o <<>>

SetMax(S) == CHOOSE x \in S : \A y \in S : y <= x

SetMin(S) == CHOOSE x \in S : \A y \in S : x <= y

Min(a, b) == IF a < b THEN a ELSE b

\* the elements of a sequence
Range(s) == {s[i] : i \in 1..Len(s)}

Max(a, b) == IF a > b THEN a ELSE b

\* the ASCII characters from the blank (32) to the underscore (95)
AsciiFrom32 == " !\"#$%&'()*+,-./0123456789:;<=>?@ABCDEFGHIJKLMNOPQRSTUVWXYZ[\\]^_"

\* the ASCII characters from a (97) to the tilde (126)
AsciiFrom97 == "abcdefghijklmnopqrstuvwxyz{|}~"

\* ord(): the code point of an ASCII character written as a string
Ord ==
    ("\t" :> 9) @@ ("\n" :> 10) @@ ("\r" :> 13)
    @@ [c \in {SubSeq(AsciiFrom32, i, i) : i \in 1..Len(AsciiFrom32)} |->
            31 + CHOOSE i \in 1..Len(AsciiFrom32) : SubSeq(AsciiFrom32, i, i) = c]
    @@ [c \in {SubSeq(AsciiFrom97, i, i) : i \in 1..Len(AsciiFrom97)} |->
            96 + CHOOSE i \in 1..Len(AsciiFrom97) : SubSeq(AsciiFrom97, i, i) = c]

\* a text is the sequence of its code points; Chars gives the text written
\* as a string of ASCII characters
Chars(s) == Tuple([i \in 1..Len(s) |-> Ord[SubSeq(s, i, i)]])

\* the value None; no text equals it
None == <<-1>>

\* whether c lies in one of the ranges <<first, last>>
InRanges(c, ranges) == \E r \in ranges : r[1] <= c /\ c <= r[2]

\* the code points str.isspace() accepts: what str.split(), str.strip() and
\* the regex class \s take for white space
Whitespace ==
    {9, 10, 11, 12, 13, 28, 29, 30, 31, 32, 133, 160, 5760, 8192, 8193, 8194,
     8195, 8196, 8197, 8198, 8199, 8200, 8201, 8202, 8232, 8233, 8239, 8287,
     12288}

\* the ranges of the code points the regex class \w accepts (str.isalnum(),
\* and the underscore), from the Unicode tables of the interpreter
WordRanges ==
    {<<48, 57>>, <<65, 90>>, <<95, 95>>, <<97, 122>>, <<170, 170>>, <<178,
     179>>, <<181, 181>>, <<185, 186>>, <<188, 190>>, <<192, 214>>, <<216,
     246>>, <<248, 705>>, <<710, 721>>, <<736, 740>>, <<748, 748>>, <<750,
     750>>, <<880, 884>>, <<886, 887>>, <<890, 893>>, <<895, 895>>, <<902,
     902>>, <<904, 906>>, <<908, 908>>, <<910, 929>>, <<931, 1013>>, <<1015,
     1153>>, <<1162, 1327>>, <<1329, 1366>>, <<1369, 1369>>, <<1376, 1416>>,
     <<1488, 1514>>, <<1519, 1522>>, <<1568, 1610>>, <<1632, 1641>>, <<1646,
     1647>>, <<1649, 1747>>, <<1749, 1749>>, <<1765, 1766>>, <<1774, 1788>>,
     <<1791, 1791>>, <<1808, 1808>>, <<1810, 1839>>, <<1869, 1957>>, <<1969,
     1969>>, <<1984, 2026>>, <<2036, 2037>>, <<2042, 2042>>, <<2048, 2069>>,
     <<2074, 2074>>, <<2084, 2084>>, <<2088, 2088>>, <<2112, 2136>>, <<2144,
     2154>>, <<2160, 2183>>, <<2185, 2190>>, <<2208, 2249>>, <<2308, 2361>>,
     <<2365, 2365>>, <<2384, 2384>>, <<2392, 2401>>, <<2406, 2415>>, <<2417,
     2432>>, <<2437, 2444>>, <<2447, 2448>>, <<2451, 2472>>, <<2474, 2480>>,
     <<2482, 2482>>, <<2486, 2489>>, <<2493, 2493>>, <<2510, 2510>>, <<2524,
     2525>>, <<2527, 2529>>, <<2534, 2545>>, <<2548, 2553>>, <<2556, 2556>>,
     <<2565, 2570>>, <<2575, 2576>>, <<2579, 2600>>, <<2602, 2608>>, <<2610,
     2611>>, <<2613, 2614>>, <<2616, 2617>>, <<2649, 2652>>, <<2654, 2654>>,
     <<2662, 2671>>, <<2674, 2676>>, <<2693, 2701>>, <<2703, 2705>>, <<2707,
     2728>>, <<2730, 2736>>, <<2738, 2739>>, <<2741, 2745>>, <<2749, 2749>>,
     <<2768, 2768>>, <<2784, 2785>>, <<2790, 2799>>, <<2809, 2809>>, <<2821,
     2828>>, <<2831, 2832>>, <<2835, 2856>>, <<2858, 2864>>, <<2866, 2867>>,
     <<2869, 2873>>, <<2877, 2877>>, <<2908, 2909>>, <<2911, 2913>>, <<2918,
     2927>>, <<2929, 2935>>, <<2947, 2947>>, <<2949, 2954>>, <<2958, 2960>>,
     <<2962, 2965>>, <<2969, 2970>>, <<2972, 2972>>, <<2974, 2975>>, <<2979,
     2980>>, <<2984, 2986>>, <<2990, 3001>>, <<3024, 3024>>, <<3046, 3058>>,
     <<3077, 3084>>, <<3086, 3088>>, <<3090, 3112>>, <<3114, 3129>>, <<3133,
     3133>>, <<3160, 3162>>, <<3165, 3165>>, <<3168, 3169>>, <<3174, 3183>>,
     <<3192, 3198>>, <<3200, 3200>>, <<3205, 3212>>, <<3214, 3216>>, <<3218,
     3240>>, <<3242, 3251>>, <<3253, 3257>>, <<3261, 3261>>, <<3293, 3294>>,
     <<3296, 3297>>, <<3302, 3311>>, <<3313, 3314>>, <<3332, 3340>>, <<3342,
     3344>>, <<3346, 3386>>, <<3389, 3389>>, <<3406, 3406>>, <<3412, 3414>>,
     <<3416, 3425>>, <<3430, 3448>>, <<3450, 3455>>, <<3461, 3478>>, <<3482,
     3505>>, <<3507, 3515>>, <<3517, 3517>>, <<3520, 3526>>, <<3558, 3567>>,
     <<3585, 3632>>, <<3634, 3635>>, <<3648, 3654>>, <<3664, 3673>>, <<3713,
     3714>>, <<3716, 3716>>, <<3718, 3722>>, <<3724, 3747>>, <<3749, 3749>>,
     <<3751, 3760>>, <<3762, 3763>>, <<3773, 3773>>, <<3776, 3780>>, <<3782,
     3782>>, <<3792, 3801>>, <<3804, 3807>>, <<3840, 3840>>, <<3872, 3891>>,
     <<3904, 3911>>, <<3913, 3948>>, <<3976, 3980>>, <<4096, 4138>>, <<4159,
     4169>>, <<4176, 4181>>, <<4186, 4189>>, <<4193, 4193>>, <<4197, 4198>>,
     <<4206, 4208>>, <<4213, 4225>>, <<4238, 4238>>, <<4240, 4249>>, <<4256,
     4293>>, <<4295, 4295>>, <<4301, 4301>>, <<4304, 4346>>, <<4348, 4680>>,
     <<4682, 4685>>, <<4688, 4694>>, <<4696, 4696>>, <<4698, 4701>>, <<4704,
     4744>>, <<4746, 4749>>, <<4752, 4784>>, <<4786, 4789>>, <<4792, 4798>>,
     <<4800, 4800>>, <<4802, 4805>>, <<4808, 4822>>, <<4824, 4880>>, <<4882,
     4885>>, <<4888, 4954>>, <<4969, 4988>>, <<4992, 5007>>, <<5024, 5109>>,
     <<5112, 5117>>, <<5121, 5740>>, <<5743, 5759>>, <<5761, 5786>>, <<5792,
     5866>>, <<5870, 5880>>, <<5888, 5905>>, <<5919, 5937>>, <<5952, 5969>>,
     <<5984, 5996>>, <<5998, 6000>>, <<6016, 6067>>, <<6103, 6103>>, <<6108,
     6108>>, <<6112, 6121>>, <<6128, 6137>>, <<6160, 6169>>, <<6176, 6264>>,
     <<6272, 6276>>, <<6279, 6312>>, <<6314, 6314>>, <<6320, 6389>>, <<6400,
     6430>>, <<6470, 6509>>, <<6512, 6516>>, <<6528, 6571>>, <<6576, 6601>>,
     <<6608, 6618>>, <<6656, 6678>>, <<6688, 6740>>, <<6784, 6793>>, <<6800,
     6809>>, <<6823, 6823>>, <<6917, 6963>>, <<6981, 6988>>, <<6992, 7001>>,
     <<7043, 7072>>, <<7086, 7141>>, <<7168, 7203>>, <<7232, 7241>>, <<7245,
     7293>>, <<7296, 7304>>, <<7312, 7354>>, <<7357, 7359>>, <<7401, 7404>>,
     <<7406, 7411>>, <<7413, 7414>>, <<7418, 7418>>, <<7424, 7615>>, <<7680,
     7957>>, <<7960, 7965>>, <<7968, 8005>>, <<8008, 8013>>, <<8016, 8023>>,
     <<8025, 8025>>, <<8027, 8027>>, <<8029, 8029>>, <<8031, 8061>>, <<8064,
     8116>>, <<8118, 8124>>, <<8126, 8126>>, <<8130, 8132>>, <<8134, 8140>>,
     <<8144, 8147>>, <<8150, 8155>>, <<8160, 8172>>, <<8178, 8180>>, <<8182,
     8188>>, <<8304, 8305>>, <<8308, 8313>>, <<8319, 8329>>, <<8336, 8348>>,
     <<8450, 8450>>, <<8455, 8455>>, <<8458, 8467>>, <<8469, 8469>>, <<8473,
     8477>>, <<8484, 8484>>, <<8486, 8486>>, <<8488, 8488>>, <<8490, 8493>>,
     <<8495, 8505>>, <<8508, 8511>>, <<8517, 8521>>, <<8526, 8526>>, <<8528,
     8585>>, <<9312, 9371>>, <<9450, 9471>>, <<10102, 10131>>, <<11264,
     11492>>, <<11499, 11502>>, <<11506, 11507>>, <<11517, 11517>>, <<11520,
     11557>>, <<11559, 11559>>, <<11565, 11565>>, <<11568, 11623>>, <<11631,
     11631>>, <<11648, 11670>>, <<11680, 11686>>, <<11688, 11694>>, <<11696,
     11702>>, <<11704, 11710>>, <<11712, 11718>>, <<11720, 11726>>, <<11728,
     11734>>, <<11736, 11742>>, <<11823, 11823>>, <<12293, 12295>>, <<12321,
     12329>>, <<12337, 12341>>, <<12344, 12348>>, <<12353, 12438>>, <<12445,
     12447>>, <<12449, 12538>>, <<12540, 12543>>, <<12549, 12591>>, <<12593,
     12686>>, <<12690, 12693>>, <<12704, 12735>>, <<12784, 12799>>, <<12832,
     12841>>, <<12872, 12879>>, <<12881, 12895>>, <<12928, 12937>>, <<12977,
     12991>>, <<13312, 19903>>, <<19968, 42124>>, <<42192, 42237>>, <<42240,
     42508>>, <<42512, 42539>>, <<42560, 42606>>, <<42623, 42653>>, <<42656,
     42735>>, <<42775, 42783>>, <<42786, 42888>>, <<42891, 42954>>, <<42960,
     42961>>, <<42963, 42963>>, <<42965, 42969>>, <<42994, 43009>>, <<43011,
     43013>>, <<43015, 43018>>, <<43020, 43042>>, <<43056, 43061>>, <<43072,
     43123>>, <<43138, 43187>>, <<43216, 43225>>, <<43250, 43255>>, <<43259,
     43259>>, <<43261, 43262>>, <<43264, 43301>>, <<43312, 43334>>, <<43360,
     43388>>, <<43396, 43442>>, <<43471, 43481>>, <<43488, 43492>>, <<43494,
     43518>>, <<43520, 43560>>, <<43584, 43586>>, <<43588, 43595>>, <<43600,
     43609>>, <<43616, 43638>>, <<43642, 43642>>, <<43646, 43695>>, <<43697,
     43697>>, <<43701, 43702>>, <<43705, 43709>>, <<43712, 43712>>, <<43714,
     43714>>, <<43739, 43741>>, <<43744, 43754>>, <<43762, 43764>>, <<43777,
     43782>>, <<43785, 43790>>, <<43793, 43798>>, <<43808, 43814>>, <<43816,
     43822>>, <<43824, 43866>>, <<43868, 43881>>, <<43888, 44002>>, <<44016,
     44025>>, <<44032, 55203>>, <<55216, 55238>>, <<55243, 55291>>, <<63744,
     64109>>, <<64112, 64217>>, <<64256, 64262>>, <<64275, 64279>>, <<64285,
     64285>>, <<64287, 64296>>, <<64298, 64310>>, <<64312, 64316>>, <<64318,
     64318>>, <<64320, 64321>>, <<64323, 64324>>, <<64326, 64433>>, <<64467,
     64829>>, <<64848, 64911>>, <<64914, 64967>>, <<65008, 65019>>, <<65136,
     65140>>, <<65142, 65276>>, <<65296, 65305>>, <<65313, 65338>>, <<65345,
     65370>>, <<65382, 65470>>, <<65474, 65479>>, <<65482, 65487>>, <<65490,
     65495>>, <<65498, 65500>>, <<65536, 65547>>, <<65549, 65574>>, <<65576,
     65594>>, <<65596, 65597>>, <<65599, 65613>>, <<65616, 65629>>, <<65664,
     65786>>, <<65799, 65843>>, <<65856, 65912>>, <<65930, 65931>>, <<66176,
     66204>>, <<66208, 66256>>, <<66273, 66299>>, <<66304, 66339>>, <<66349,
     66378>>, <<66384, 66421>>, <<66432, 66461>>, <<66464, 66499>>, <<66504,
     66511>>, <<66513, 66517>>, <<66560, 66717>>, <<66720, 66729>>, <<66736,
     66771>>, <<66776, 66811>>, <<66816, 66855>>, <<66864, 66915>>, <<66928,
     66938>>, <<66940, 66954>>, <<66956, 66962>>, <<66964, 66965>>, <<66967,
     66977>>, <<66979, 66993>>, <<66995, 67001>>, <<67003, 67004>>, <<67072,
     67382>>, <<67392, 67413>>, <<67424, 67431>>, <<67456, 67461>>, <<67463,
     67504>>, <<67506, 67514>>, <<67584, 67589>>, <<67592, 67592>>, <<67594,
     67637>>, <<67639, 67640>>, <<67644, 67644>>, <<67647, 67669>>, <<67672,
     67702>>, <<67705, 67742>>, <<67751, 67759>>, <<67808, 67826>>, <<67828,
     67829>>, <<67835, 67867>>, <<67872, 67897>>, <<67968, 68023>>, <<68028,
     68047>>, <<68050, 68096>>, <<68112, 68115>>, <<68117, 68119>>, <<68121,
     68149>>, <<68160, 68168>>, <<68192, 68222>>, <<68224, 68255>>, <<68288,
     68295>>, <<68297, 68324>>, <<68331, 68335>>, <<68352, 68405>>, <<68416,
     68437>>, <<68440, 68466>>, <<68472, 68497>>, <<68521, 68527>>, <<68608,
     68680>>, <<68736, 68786>>, <<68800, 68850>>, <<68858, 68899>>, <<68912,
     68921>>, <<69216, 69246>>, <<69248, 69289>>, <<69296, 69297>>, <<69376,
     69415>>, <<69424, 69445>>, <<69457, 69460>>, <<69488, 69505>>, <<69552,
     69579>>, <<69600, 69622>>, <<69635, 69687>>, <<69714, 69743>>, <<69745,
     69746>>, <<69749, 69749>>, <<69763, 69807>>, <<69840, 69864>>, <<69872,
     69881>>, <<69891, 69926>>, <<69942, 69951>>, <<69956, 69956>>, <<69959,
     69959>>, <<69968, 70002>>, <<70006, 70006>>, <<70019, 70066>>, <<70081,
     70084>>, <<70096, 70106>>, <<70108, 70108>>, <<70113, 70132>>, <<70144,
     70161>>, <<70163, 70187>>, <<70272, 70278>>, <<70280, 70280>>, <<70282,
     70285>>, <<70287, 70301>>, <<70303, 70312>>, <<70320, 70366>>, <<70384,
     70393>>, <<70405, 70412>>, <<70415, 70416>>, <<70419, 70440>>, <<70442,
     70448>>, <<70450, 70451>>, <<70453, 70457>>, <<70461, 70461>>, <<70480,
     70480>>, <<70493, 70497>>, <<70656, 70708>>, <<70727, 70730>>, <<70736,
     70745>>, <<70751, 70753>>, <<70784, 70831>>, <<70852, 70853>>, <<70855,
     70855>>, <<70864, 70873>>, <<71040, 71086>>, <<71128, 71131>>, <<71168,
     71215>>, <<71236, 71236>>, <<71248, 71257>>, <<71296, 71338>>, <<71352,
     71352>>, <<71360, 71369>>, <<71424, 71450>>, <<71472, 71483>>, <<71488,
     71494>>, <<71680, 71723>>, <<71840, 71922>>, <<71935, 71942>>, <<71945,
     71945>>, <<71948, 71955>>, <<71957, 71958>>, <<71960, 71983>>, <<71999,
     71999>>, <<72001, 72001>>, <<72016, 72025>>, <<72096, 72103>>, <<72106,
     72144>>, <<72161, 72161>>, <<72163, 72163>>, <<72192, 72192>>, <<72203,
     72242>>, <<72250, 72250>>, <<72272, 72272>>, <<72284, 72329>>, <<72349,
     72349>>, <<72368, 72440>>, <<72704, 72712>>, <<72714, 72750>>, <<72768,
     72768>>, <<72784, 72812>>, <<72818, 72847>>, <<72960, 72966>>, <<72968,
     72969>>, <<72971, 73008>>, <<73030, 73030>>, <<73040, 73049>>, <<73056,
     73061>>, <<73063, 73064>>, <<73066, 73097>>, <<73112, 73112>>, <<73120,
     73129>>, <<73440, 73458>>, <<73648, 73648>>, <<73664, 73684>>, <<73728,
     74649>>, <<74752, 74862>>, <<74880, 75075>>, <<77712, 77808>>, <<77824,
     78894>>, <<82944, 83526>>, <<92160, 92728>>, <<92736, 92766>>, <<92768,
     92777>>, <<92784, 92862>>, <<92864, 92873>>, <<92880, 92909>>, <<92928,
     92975>>, <<92992, 92995>>, <<93008, 93017>>, <<93019, 93025>>, <<93027,
     93047>>, <<93053, 93071>>, <<93760, 93846>>, <<93952, 94026>>, <<94032,
     94032>>, <<94099, 94111>>, <<94176, 94177>>, <<94179, 94179>>, <<94208,
     100343>>, <<100352, 101589>>, <<101632, 101640>>, <<110576, 110579>>,
     <<110581, 110587>>, <<110589, 110590>>, <<110592, 110882>>, <<110928,
     110930>>, <<110948, 110951>>, <<110960, 111355>>, <<113664, 113770>>,
     <<113776, 113788>>, <<113792, 113800>>, <<113808, 113817>>, <<119520,
     119539>>, <<119648, 119672>>, <<119808, 119892>>, <<119894, 119964>>,
     <<119966, 119967>>, <<119970, 119970>>, <<119973, 119974>>, <<119977,
     119980>>, <<119982, 119993>>, <<119995, 119995>>, <<119997, 120003>>,
     <<120005, 120069>>, <<120071, 120074>>, <<120077, 120084>>, <<120086,
     120092>>, <<120094, 120121>>, <<120123, 120126>>, <<120128, 120132>>,
     <<120134, 120134>>, <<120138, 120144>>, <<120146, 120485>>, <<120488,
     120512>>, <<120514, 120538>>, <<120540, 120570>>, <<120572, 120596>>,
     <<120598, 120628>>, <<120630, 120654>>, <<120656, 120686>>, <<120688,
     120712>>, <<120714, 120744>>, <<120746, 120770>>, <<120772, 120779>>,
     <<120782, 120831>>, <<122624, 122654>>, <<123136, 123180>>, <<123191,
     123197>>, <<123200, 123209>>, <<123214, 123214>>, <<123536, 123565>>,
     <<123584, 123627>>, <<123632, 123641>>, <<124896, 124902>>, <<124904,
     124907>>, <<124909, 124910>>, <<124912, 124926>>, <<124928, 125124>>,
     <<125127, 125135>>, <<125184, 125251>>, <<125259, 125259>>, <<125264,
     125273>>, <<126065, 126123>>, <<126125, 126127>>, <<126129, 126132>>,
     <<126209, 126253>>, <<126255, 126269>>, <<126464, 126467>>, <<126469,
     126495>>, <<126497, 126498>>, <<126500, 126500>>, <<126503, 126503>>,
     <<126505, 126514>>, <<126516, 126519>>, <<126521, 126521>>, <<126523,
     126523>>, <<126530, 126530>>, <<126535, 126535>>, <<126537, 126537>>,
     <<126539, 126539>>, <<126541, 126543>>, <<126545, 126546>>, <<126548,
     126548>>, <<126551, 126551>>, <<126553, 126553>>, <<126555, 126555>>,
     <<126557, 126557>>, <<126559, 126559>>, <<126561, 126562>>, <<126564,
     126564>>, <<126567, 126570>>, <<126572, 126578>>, <<126580, 126583>>,
     <<126585, 126588>>, <<126590, 126590>>, <<126592, 126601>>, <<126603,
     126619>>, <<126625, 126627>>, <<126629, 126633>>, <<126635, 126651>>,
     <<127232, 127244>>, <<130032, 130041>>, <<131072, 173791>>, <<173824,
     177976>>, <<177984, 178205>>, <<178208, 183969>>, <<183984, 191456>>,
     <<194560, 195101>>, <<196608, 201546>>}

\* the code points str.lower() changes into one other code point, as
\* <<first, last, step, shift>>: every step-th code point from first to
\* last goes to itself plus shift
LowerRuns ==
    {<<65, 90, 1, 32>>, <<192, 214, 1, 32>>, <<216, 222, 1, 32>>, <<256, 302,
     2, 1>>, <<306, 310, 2, 1>>, <<313, 327, 2, 1>>, <<330, 374, 2, 1>>, <<376,
     376, 1, -121>>, <<377, 381, 2, 1>>, <<385, 385, 1, 210>>, <<386, 388, 2,
     1>>, <<390, 390, 1, 206>>, <<391, 391, 1, 1>>, <<393, 394, 1, 205>>,
     <<395, 395, 1, 1>>, <<398, 398, 1, 79>>, <<399, 399, 1, 202>>, <<400, 400,
     1, 203>>, <<401, 401, 1, 1>>, <<403, 403, 1, 205>>, <<404, 404, 1, 207>>,
     <<406, 406, 1, 211>>, <<407, 407, 1, 209>>, <<408, 408, 1, 1>>, <<412,
     412, 1, 211>>, <<413, 413, 1, 213>>, <<415, 415, 1, 214>>, <<416, 420, 2,
     1>>, <<422, 422, 1, 218>>, <<423, 423, 1, 1>>, <<425, 425, 1, 218>>,
     <<428, 428, 1, 1>>, <<430, 430, 1, 218>>, <<431, 431, 1, 1>>, <<433, 434,
     1, 217>>, <<435, 437, 2, 1>>, <<439, 439, 1, 219>>, <<440, 440, 1, 1>>,
     <<444, 444, 1, 1>>, <<452, 452, 1, 2>>, <<453, 453, 1, 1>>, <<455, 455, 1,
     2>>, <<456, 456, 1, 1>>, <<458, 458, 1, 2>>, <<459, 475, 2, 1>>, <<478,
     494, 2, 1>>, <<497, 497, 1, 2>>, <<498, 500, 2, 1>>, <<502, 502, 1, -97>>,
     <<503, 503, 1, -56>>, <<504, 542, 2, 1>>, <<544, 544, 1, -130>>, <<546,
     562, 2, 1>>, <<570, 570, 1, 10795>>, <<571, 571, 1, 1>>, <<573, 573, 1,
     -163>>, <<574, 574, 1, 10792>>, <<577, 577, 1, 1>>, <<579, 579, 1, -195>>,
     <<580, 580, 1, 69>>, <<581, 581, 1, 71>>, <<582, 590, 2, 1>>, <<880, 882,
     2, 1>>, <<886, 886, 1, 1>>, <<895, 895, 1, 116>>, <<902, 902, 1, 38>>,
     <<904, 906, 1, 37>>, <<908, 908, 1, 64>>, <<910, 911, 1, 63>>, <<913, 929,
     1, 32>>, <<931, 939, 1, 32>>, <<975, 975, 1, 8>>, <<984, 1006, 2, 1>>,
     <<1012, 1012, 1, -60>>, <<1015, 1015, 1, 1>>, <<1017, 1017, 1, -7>>,
     <<1018, 1018, 1, 1>>, <<1021, 1023, 1, -130>>, <<1024, 1039, 1, 80>>,
     <<1040, 1071, 1, 32>>, <<1120, 1152, 2, 1>>, <<1162, 1214, 2, 1>>, <<1216,
     1216, 1, 15>>, <<1217, 1229, 2, 1>>, <<1232, 1326, 2, 1>>, <<1329, 1366,
     1, 48>>, <<4256, 4293, 1, 7264>>, <<4295, 4295, 1, 7264>>, <<4301, 4301,
     1, 7264>>, <<5024, 5103, 1, 38864>>, <<5104, 5109, 1, 8>>, <<7312, 7354,
     1, -3008>>, <<7357, 7359, 1, -3008>>, <<7680, 7828, 2, 1>>, <<7838, 7838,
     1, -7615>>, <<7840, 7934, 2, 1>>, <<7944, 7951, 1, -8>>, <<7960, 7965, 1,
     -8>>, <<7976, 7983, 1, -8>>, <<7992, 7999, 1, -8>>, <<8008, 8013, 1, -8>>,
     <<8025, 8031, 2, -8>>, <<8040, 8047, 1, -8>>, <<8072, 8079, 1, -8>>,
     <<8088, 8095, 1, -8>>, <<8104, 8111, 1, -8>>, <<8120, 8121, 1, -8>>,
     <<8122, 8123, 1, -74>>, <<8124, 8124, 1, -9>>, <<8136, 8139, 1, -86>>,
     <<8140, 8140, 1, -9>>, <<8152, 8153, 1, -8>>, <<8154, 8155, 1, -100>>,
     <<8168, 8169, 1, -8>>, <<8170, 8171, 1, -112>>, <<8172, 8172, 1, -7>>,
     <<8184, 8185, 1, -128>>, <<8186, 8187, 1, -126>>, <<8188, 8188, 1, -9>>,
     <<8486, 8486, 1, -7517>>, <<8490, 8490, 1, -8383>>, <<8491, 8491, 1,
     -8262>>, <<8498, 8498, 1, 28>>, <<8544, 8559, 1, 16>>, <<8579, 8579, 1,
     1>>, <<9398, 9423, 1, 26>>, <<11264, 11311, 1, 48>>, <<11360, 11360, 1,
     1>>, <<11362, 11362, 1, -10743>>, <<11363, 11363, 1, -3814>>, <<11364,
     11364, 1, -10727>>, <<11367, 11371, 2, 1>>, <<11373, 11373, 1, -10780>>,
     <<11374, 11374, 1, -10749>>, <<11375, 11375, 1, -10783>>, <<11376, 11376,
     1, -10782>>, <<11378, 11378, 1, 1>>, <<11381, 11381, 1, 1>>, <<11390,
     11391, 1, -10815>>, <<11392, 11490, 2, 1>>, <<11499, 11501, 2, 1>>,
     <<11506, 11506, 1, 1>>, <<42560, 42604, 2, 1>>, <<42624, 42650, 2, 1>>,
     <<42786, 42798, 2, 1>>, <<42802, 42862, 2, 1>>, <<42873, 42875, 2, 1>>,
     <<42877, 42877, 1, -35332>>, <<42878, 42886, 2, 1>>, <<42891, 42891, 1,
     1>>, <<42893, 42893, 1, -42280>>, <<42896, 42898, 2, 1>>, <<42902, 42920,
     2, 1>>, <<42922, 42922, 1, -42308>>, <<42923, 42923, 1, -42319>>, <<42924,
     42924, 1, -42315>>, <<42925, 42925, 1, -42305>>, <<42926, 42926, 1,
     -42308>>, <<42928, 42928, 1, -42258>>, <<42929, 42929, 1, -42282>>,
     <<42930, 42930, 1, -42261>>, <<42931, 42931, 1, 928>>, <<42932, 42946, 2,
     1>>, <<42948, 42948, 1, -48>>, <<42949, 42949, 1, -42307>>, <<42950,
     42950, 1, -35384>>, <<42951, 42953, 2, 1>>, <<42960, 42960, 1, 1>>,
     <<42966, 42968, 2, 1>>, <<42997, 42997, 1, 1>>, <<65313, 65338, 1, 32>>,
     <<66560, 66599, 1, 40>>, <<66736, 66771, 1, 40>>, <<66928, 66938, 1, 39>>,
     <<66940, 66954, 1, 39>>, <<66956, 66962, 1, 39>>, <<66964, 66965, 1, 39>>,
     <<68736, 68786, 1, 64>>, <<71840, 71871, 1, 32>>, <<93760, 93791, 1, 32>>,
     <<125184, 125217, 1, 34>>}

\* the ranges of the code points the final-sigma rule of str.lower() skips
\* (case-ignorable)
CaseIgnorableRanges ==
    {<<39, 39>>, <<46, 46>>, <<58, 58>>, <<94, 94>>, <<96, 96>>, <<168, 168>>,
     <<173, 173>>, <<175, 175>>, <<180, 180>>, <<183, 184>>, <<688, 879>>,
     <<884, 885>>, <<890, 890>>, <<900, 901>>, <<903, 903>>, <<1155, 1161>>,
     <<1369, 1369>>, <<1375, 1375>>, <<1425, 1469>>, <<1471, 1471>>, <<1473,
     1474>>, <<1476, 1477>>, <<1479, 1479>>, <<1524, 1524>>, <<1536, 1541>>,
     <<1552, 1562>>, <<1564, 1564>>, <<1600, 1600>>, <<1611, 1631>>, <<1648,
     1648>>, <<1750, 1757>>, <<1759, 1768>>, <<1770, 1773>>, <<1807, 1807>>,
     <<1809, 1809>>, <<1840, 1866>>, <<1958, 1968>>, <<2027, 2037>>, <<2042,
     2042>>, <<2045, 2045>>, <<2070, 2093>>, <<2137, 2139>>, <<2184, 2184>>,
     <<2192, 2193>>, <<2200, 2207>>, <<2249, 2306>>, <<2362, 2362>>, <<2364,
     2364>>, <<2369, 2376>>, <<2381, 2381>>, <<2385, 2391>>, <<2402, 2403>>,
     <<2417, 2417>>, <<2433, 2433>>, <<2492, 2492>>, <<2497, 2500>>, <<2509,
     2509>>, <<2530, 2531>>, <<2558, 2558>>, <<2561, 2562>>, <<2620, 2620>>,
     <<2625, 2626>>, <<2631, 2632>>, <<2635, 2637>>, <<2641, 2641>>, <<2672,
     2673>>, <<2677, 2677>>, <<2689, 2690>>, <<2748, 2748>>, <<2753, 2757>>,
     <<2759, 2760>>, <<2765, 2765>>, <<2786, 2787>>, <<2810, 2815>>, <<2817,
     2817>>, <<2876, 2876>>, <<2879, 2879>>, <<2881, 2884>>, <<2893, 2893>>,
     <<2901, 2902>>, <<2914, 2915>>, <<2946, 2946>>, <<3008, 3008>>, <<3021,
     3021>>, <<3072, 3072>>, <<3076, 3076>>, <<3132, 3132>>, <<3134, 3136>>,
     <<3142, 3144>>, <<3146, 3149>>, <<3157, 3158>>, <<3170, 3171>>, <<3201,
     3201>>, <<3260, 3260>>, <<3263, 3263>>, <<3270, 3270>>, <<3276, 3277>>,
     <<3298, 3299>>, <<3328, 3329>>, <<3387, 3388>>, <<3393, 3396>>, <<3405,
     3405>>, <<3426, 3427>>, <<3457, 3457>>, <<3530, 3530>>, <<3538, 3540>>,
     <<3542, 3542>>, <<3633, 3633>>, <<3636, 3642>>, <<3654, 3662>>, <<3761,
     3761>>, <<3764, 3772>>, <<3782, 3782>>, <<3784, 3789>>, <<3864, 3865>>,
     <<3893, 3893>>, <<3895, 3895>>, <<3897, 3897>>, <<3953, 3966>>, <<3968,
     3972>>, <<3974, 3975>>, <<3981, 3991>>, <<3993, 4028>>, <<4038, 4038>>,
     <<4141, 4144>>, <<4146, 4151>>, <<4153, 4154>>, <<4157, 4158>>, <<4184,
     4185>>, <<4190, 4192>>, <<4209, 4212>>, <<4226, 4226>>, <<4229, 4230>>,
     <<4237, 4237>>, <<4253, 4253>>, <<4348, 4348>>, <<4957, 4959>>, <<5906,
     5908>>, <<5938, 5939>>, <<5970, 5971>>, <<6002, 6003>>, <<6068, 6069>>,
     <<6071, 6077>>, <<6086, 6086>>, <<6089, 6099>>, <<6103, 6103>>, <<6109,
     6109>>, <<6155, 6159>>, <<6211, 6211>>, <<6277, 6278>>, <<6313, 6313>>,
     <<6432, 6434>>, <<6439, 6440>>, <<6450, 6450>>, <<6457, 6459>>, <<6679,
     6680>>, <<6683, 6683>>, <<6742, 6742>>, <<6744, 6750>>, <<6752, 6752>>,
     <<6754, 6754>>, <<6757, 6764>>, <<6771, 6780>>, <<6783, 6783>>, <<6823,
     6823>>, <<6832, 6862>>, <<6912, 6915>>, <<6964, 6964>>, <<6966, 6970>>,
     <<6972, 6972>>, <<6978, 6978>>, <<7019, 7027>>, <<7040, 7041>>, <<7074,
     7077>>, <<7080, 7081>>, <<7083, 7085>>, <<7142, 7142>>, <<7144, 7145>>,
     <<7149, 7149>>, <<7151, 7153>>, <<7212, 7219>>, <<7222, 7223>>, <<7288,
     7293>>, <<7376, 7378>>, <<7380, 7392>>, <<7394, 7400>>, <<7405, 7405>>,
     <<7412, 7412>>, <<7416, 7417>>, <<7468, 7530>>, <<7544, 7544>>, <<7579,
     7679>>, <<8125, 8125>>, <<8127, 8129>>, <<8141, 8143>>, <<8157, 8159>>,
     <<8173, 8175>>, <<8189, 8190>>, <<8203, 8207>>, <<8216, 8217>>, <<8228,
     8228>>, <<8231, 8231>>, <<8234, 8238>>, <<8288, 8292>>, <<8294, 8303>>,
     <<8305, 8305>>, <<8319, 8319>>, <<8336, 8348>>, <<8400, 8432>>, <<11388,
     11389>>, <<11503, 11505>>, <<11631, 11631>>, <<11647, 11647>>, <<11744,
     11775>>, <<11823, 11823>>, <<12293, 12293>>, <<12330, 12333>>, <<12337,
     12341>>, <<12347, 12347>>, <<12441, 12446>>, <<12540, 12542>>, <<40981,
     40981>>, <<42232, 42237>>, <<42508, 42508>>, <<42607, 42610>>, <<42612,
     42621>>, <<42623, 42623>>, <<42652, 42655>>, <<42736, 42737>>, <<42752,
     42785>>, <<42864, 42864>>, <<42888, 42890>>, <<42994, 42996>>, <<43000,
     43001>>, <<43010, 43010>>, <<43014, 43014>>, <<43019, 43019>>, <<43045,
     43046>>, <<43052, 43052>>, <<43204, 43205>>, <<43232, 43249>>, <<43263,
     43263>>, <<43302, 43309>>, <<43335, 43345>>, <<43392, 43394>>, <<43443,
     43443>>, <<43446, 43449>>, <<43452, 43453>>, <<43471, 43471>>, <<43493,
     43494>>, <<43561, 43566>>, <<43569, 43570>>, <<43573, 43574>>, <<43587,
     43587>>, <<43596, 43596>>, <<43632, 43632>>, <<43644, 43644>>, <<43696,
     43696>>, <<43698, 43700>>, <<43703, 43704>>, <<43710, 43711>>, <<43713,
     43713>>, <<43741, 43741>>, <<43756, 43757>>, <<43763, 43764>>, <<43766,
     43766>>, <<43867, 43871>>, <<43881, 43883>>, <<44005, 44005>>, <<44008,
     44008>>, <<44013, 44013>>, <<64286, 64286>>, <<64434, 64450>>, <<65024,
     65039>>, <<65043, 65043>>, <<65056, 65071>>, <<65106, 65106>>, <<65109,
     65109>>, <<65279, 65279>>, <<65287, 65287>>, <<65294, 65294>>, <<65306,
     65306>>, <<65342, 65342>>, <<65344, 65344>>, <<65392, 65392>>, <<65438,
     65439>>, <<65507, 65507>>, <<65529, 65531>>, <<66045, 66045>>, <<66272,
     66272>>, <<66422, 66426>>, <<67456, 67461>>, <<67463, 67504>>, <<67506,
     67514>>, <<68097, 68099>>, <<68101, 68102>>, <<68108, 68111>>, <<68152,
     68154>>, <<68159, 68159>>, <<68325, 68326>>, <<68900, 68903>>, <<69291,
     69292>>, <<69446, 69456>>, <<69506, 69509>>, <<69633, 69633>>, <<69688,
     69702>>, <<69744, 69744>>, <<69747, 69748>>, <<69759, 69761>>, <<69811,
     69814>>, <<69817, 69818>>, <<69821, 69821>>, <<69826, 69826>>, <<69837,
     69837>>, <<69888, 69890>>, <<69927, 69931>>, <<69933, 69940>>, <<70003,
     70003>>, <<70016, 70017>>, <<70070, 70078>>, <<70089, 70092>>, <<70095,
     70095>>, <<70191, 70193>>, <<70196, 70196>>, <<70198, 70199>>, <<70206,
     70206>>, <<70367, 70367>>, <<70371, 70378>>, <<70400, 70401>>, <<70459,
     70460>>, <<70464, 70464>>, <<70502, 70508>>, <<70512, 70516>>, <<70712,
     70719>>, <<70722, 70724>>, <<70726, 70726>>, <<70750, 70750>>, <<70835,
     70840>>, <<70842, 70842>>, <<70847, 70848>>, <<70850, 70851>>, <<71090,
     71093>>, <<71100, 71101>>, <<71103, 71104>>, <<71132, 71133>>, <<71219,
     71226>>, <<71229, 71229>>, <<71231, 71232>>, <<71339, 71339>>, <<71341,
     71341>>, <<71344, 71349>>, <<71351, 71351>>, <<71453, 71455>>, <<71458,
     71461>>, <<71463, 71467>>, <<71727, 71735>>, <<71737, 71738>>, <<71995,
     71996>>, <<71998, 71998>>, <<72003, 72003>>, <<72148, 72151>>, <<72154,
     72155>>, <<72160, 72160>>, <<72193, 72202>>, <<72243, 72248>>, <<72251,
     72254>>, <<72263, 72263>>, <<72273, 72278>>, <<72281, 72283>>, <<72330,
     72342>>, <<72344, 72345>>, <<72752, 72758>>, <<72760, 72765>>, <<72767,
     72767>>, <<72850, 72871>>, <<72874, 72880>>, <<72882, 72883>>, <<72885,
     72886>>, <<73009, 73014>>, <<73018, 73018>>, <<73020, 73021>>, <<73023,
     73029>>, <<73031, 73031>>, <<73104, 73105>>, <<73109, 73109>>, <<73111,
     73111>>, <<73459, 73460>>, <<78896, 78904>>, <<92912, 92916>>, <<92976,
     92982>>, <<92992, 92995>>, <<94031, 94031>>, <<94095, 94111>>, <<94176,
     94177>>, <<94179, 94180>>, <<110576, 110579>>, <<110581, 110587>>,
     <<110589, 110590>>, <<113821, 113822>>, <<113824, 113827>>, <<118528,
     118573>>, <<118576, 118598>>, <<119143, 119145>>, <<119155, 119170>>,
     <<119173, 119179>>, <<119210, 119213>>, <<119362, 119364>>, <<121344,
     121398>>, <<121403, 121452>>, <<121461, 121461>>, <<121476, 121476>>,
     <<121499, 121503>>, <<121505, 121519>>, <<122880, 122886>>, <<122888,
     122904>>, <<122907, 122913>>, <<122915, 122916>>, <<122918, 122922>>,
     <<123184, 123197>>, <<123566, 123566>>, <<123628, 123631>>, <<125136,
     125142>>, <<125252, 125259>>, <<127995, 127999>>, <<917505, 917505>>,
     <<917536, 917631>>, <<917760, 917999>>}

\* the ranges of the code points that are cased and not case-ignorable
CasedRanges ==
    {<<65, 90>>, <<97, 122>>, <<170, 170>>, <<181, 181>>, <<186, 186>>, <<192,
     214>>, <<216, 246>>, <<248, 442>>, <<444, 447>>, <<452, 659>>, <<661,
     687>>, <<880, 883>>, <<886, 887>>, <<891, 893>>, <<895, 895>>, <<902,
     902>>, <<904, 906>>, <<908, 908>>, <<910, 929>>, <<931, 1013>>, <<1015,
     1153>>, <<1162, 1327>>, <<1329, 1366>>, <<1376, 1416>>, <<4256, 4293>>,
     <<4295, 4295>>, <<4301, 4301>>, <<4304, 4346>>, <<4349, 4351>>, <<5024,
     5109>>, <<5112, 5117>>, <<7296, 7304>>, <<7312, 7354>>, <<7357, 7359>>,
     <<7424, 7467>>, <<7531, 7543>>, <<7545, 7578>>, <<7680, 7957>>, <<7960,
     7965>>, <<7968, 8005>>, <<8008, 8013>>, <<8016, 8023>>, <<8025, 8025>>,
     <<8027, 8027>>, <<8029, 8029>>, <<8031, 8061>>, <<8064, 8116>>, <<8118,
     8124>>, <<8126, 8126>>, <<8130, 8132>>, <<8134, 8140>>, <<8144, 8147>>,
     <<8150, 8155>>, <<8160, 8172>>, <<8178, 8180>>, <<8182, 8188>>, <<8450,
     8450>>, <<8455, 8455>>, <<8458, 8467>>, <<8469, 8469>>, <<8473, 8477>>,
     <<8484, 8484>>, <<8486, 8486>>, <<8488, 8488>>, <<8490, 8493>>, <<8495,
     8500>>, <<8505, 8505>>, <<8508, 8511>>, <<8517, 8521>>, <<8526, 8526>>,
     <<8544, 8575>>, <<8579, 8580>>, <<9398, 9449>>, <<11264, 11387>>, <<11390,
     11492>>, <<11499, 11502>>, <<11506, 11507>>, <<11520, 11557>>, <<11559,
     11559>>, <<11565, 11565>>, <<42560, 42605>>, <<42624, 42651>>, <<42786,
     42863>>, <<42865, 42887>>, <<42891, 42894>>, <<42896, 42954>>, <<42960,
     42961>>, <<42963, 42963>>, <<42965, 42969>>, <<42997, 42998>>, <<43002,
     43002>>, <<43824, 43866>>, <<43872, 43880>>, <<43888, 43967>>, <<64256,
     64262>>, <<64275, 64279>>, <<65313, 65338>>, <<65345, 65370>>, <<66560,
     66639>>, <<66736, 66771>>, <<66776, 66811>>, <<66928, 66938>>, <<66940,
     66954>>, <<66956, 66962>>, <<66964, 66965>>, <<66967, 66977>>, <<66979,
     66993>>, <<66995, 67001>>, <<67003, 67004>>, <<68736, 68786>>, <<68800,
     68850>>, <<71840, 71903>>, <<93760, 93823>>, <<119808, 119892>>, <<119894,
     119964>>, <<119966, 119967>>, <<119970, 119970>>, <<119973, 119974>>,
     <<119977, 119980>>, <<119982, 119993>>, <<119995, 119995>>, <<119997,
     120003>>, <<120005, 120069>>, <<120071, 120074>>, <<120077, 120084>>,
     <<120086, 120092>>, <<120094, 120121>>, <<120123, 120126>>, <<120128,
     120132>>, <<120134, 120134>>, <<120138, 120144>>, <<120146, 120485>>,
     <<120488, 120512>>, <<120514, 120538>>, <<120540, 120570>>, <<120572,
     120596>>, <<120598, 120628>>, <<120630, 120654>>, <<120656, 120686>>,
     <<120688, 120712>>, <<120714, 120744>>, <<120746, 120770>>, <<120772,
     120779>>, <<122624, 122633>>, <<122635, 122654>>, <<125184, 125251>>,
     <<127280, 127305>>, <<127312, 127337>>, <<127344, 127369>>}

\* the code points outside ASCII whose NFKC normal form holds one of / ? # @ :
NetlocForbidden ==
    {8263, 8264, 8265, 8448, 8449, 8453, 8454, 10868, 65043, 65046, 65109,
     65110, 65119, 65131, 65283, 65295, 65306, 65311, 65312}

\* str.isspace() of a character
IsSpace(c) == c \in Whitespace

\* the regex class \w
IsWord(c) == InRanges(c, WordRanges)

\* str.lower() on a character that lowers to one character, whatever its
\* neighbours (below 128 the only run of LowerRuns is A to Z)
LowerChar(c) ==
    LET shifted(runs) == IF runs = {} THEN c ELSE c + (CHOOSE r \in runs : TRUE)[4]
    IN  IF c < 128 THEN (IF 65 <= c /\ c <= 90 THEN c + 32 ELSE c)
        ELSE shifted({r \in LowerRuns :
                        r[1] <= c /\ c <= r[2] /\ (c - r[1]) % r[3] = 0})

\* whether the capital sigma at position i of s is lowered to the final
\* sigma: a cased character comes before it and none comes after it, the
\* case-ignorable characters next to it being skipped
FinalSigma(s, i) ==
    LET \* seen: the positions of the characters that are not skipped;
        \* cased: those of the cased characters
        final(seen, cased) ==
            LET before == {j \in seen : j < i}
                after == {j \in seen : j > i}
            IN  /\ before # {}
                /\ SetMax(before) \in cased
                /\ (after = {} \/ SetMin(after) \notin cased)
    IN  final({j \in 1..Len(s) : ~InRanges(s[j], CaseIgnorableRanges)},
              {j \in 1..Len(s) : InRanges(s[j], CasedRanges)})

\* str.lower(): character by character, but for the capital sigma (931),
\* which becomes the final sigma (962) or the sigma (963), and the dotted
\* capital I (304), which becomes i and the combining dot above (105, 775)
Lower(s) ==
    LET \* ones: every character lowered to one character; dotted: the
        \* positions of the dotted capital I, each of which takes two places
        spread(ones, dotted) ==
            LET start(i) == i + Cardinality({j \in dotted : j < i})
            IN  Tuple([k \in 1..(Len(s) + Cardinality(dotted)) |->
                    LET i == CHOOSE j \in 1..Len(s) :
                                start(j) <= k /\ (j = Len(s) \/ k < start(j + 1))
                    IN  IF i \notin dotted THEN ones[i]
                        ELSE IF k = start(i) THEN 105 ELSE 775])
        lowered(ones) ==
            IF 304 \in Range(s) THEN spread(ones, {i \in 1..Len(s) : s[i] = 304})
            ELSE ones
    IN  lowered(Tuple([i \in 1..Len(s) |->
                        IF s[i] = 931
                        THEN (IF FinalSigma(s, i) THEN 962 ELSE 963)
                        ELSE LowerChar(s[i])]))

\* needle in hay (substring test)
Contains(hay, needle) ==
    \E i \in 0..(Len(hay) - Len(needle)) :
        SubSeq(hay, i + 1, i + Len(needle)) = needle

\* str.split(): the maximal runs of non-space characters, in order
Split(s) ==
    LET starts == {i \in 1..Len(s) : ~IsSpace(s[i]) /\ (i = 1 \/ IsSpace(s[i - 1]))}
        ends == {i \in 1..Len(s) : ~IsSpace(s[i]) /\ (i = Len(s) \/ IsSpace(s[i + 1]))}
        start(k) == CHOOSE i \in starts : Cardinality({j \in starts : j < i}) = k - 1
        end(k) == CHOOSE i \in ends : Cardinality({j \in ends : j < i}) = k - 1
    IN  Tuple([k \in 1..Cardinality(starts) |-> SubSeq(s, start(k), end(k))])

\* set(s.split())
WordSet(s) == Range(Split(s))

\* str.split(sep) for a one-character sep: the parts between the
\* occurrences of sep, empty parts included
SplitOn(s, sep) ==
    LET cuts == {i \in 1..Len(s) : s[i] = sep}
        cut(k) == IF k = 0 THEN 0
                  ELSE IF k > Cardinality(cuts) THEN Len(s) + 1
                  ELSE CHOOSE i \in cuts : Cardinality({j \in cuts : j < i}) = k - 1
    IN  Tuple([k \in 1..(Cardinality(cuts) + 1) |->
                SubSeq(s, cut(k - 1) + 1, cut(k) - 1)])

\* str.replace(old, new) for a non-empty old: the occurrences are taken from
\* left to right, each starting after the end of the one before
Replace(s, old, new) ==
    IF Len(s) < Len(old) THEN s
    ELSE
    LET found == {i \in 1..(Len(s) - Len(old) + 1) :
                    SubSeq(s, i, i + Len(old) - 1) = old}
        R[i \in 1..(Len(s) + 1)] ==
            LET ahead == {m \in found : m >= i}
            IN  IF ahead = {} THEN SubSeq(s, i, Len(s))
                ELSE LET m == CHOOSE x \in ahead : \A y \in ahead : x <= y
                     IN  SubSeq(s, i, m - 1) \o new \o R[m + Len(old)]
    IN  R[1]

\* str.strip()
Strip(s) ==
    LET keep == {i \in 1..Len(s) : ~IsSpace(s[i])}
    IN  IF keep = {} THEN <<>>
        ELSE LET lo == CHOOSE i \in keep : \A j \in keep : i <= j
                 hi == CHOOSE i \in keep : \A j \in keep : j <= i
             IN  SubSeq(s, lo, hi)

\* re.sub(r'\s+', ' ', s): every run of white space becomes one blank
CollapseSpaces(s) ==
    LET marked == Tuple([i \in 1..Len(s) |->
                        IF ~IsSpace(s[i]) THEN s[i]
                        ELSE IF i > 1 /\ IsSpace(s[i - 1]) THEN -1
                        ELSE 32])
    IN  SelectSeq(marked, LAMBDA c : c # -1)

Digits == Chars("0123456789")

\* str(n) for a natural number
RECURSIVE NatToStr(_)
NatToStr(n) ==
    IF n < 10 THEN <<Digits[n + 1]>>
    ELSE Append(NatToStr(n \div 10), Digits[(n % 10) + 1])

\* str(n) for an integer, as an f-string formats it
IntToStr(n) == IF n < 0 THEN <<45>> \o NatToStr(0 - n) ELSE NatToStr(n)

\* s[:n]: the first n elements, or all but the last -n when n is negative
Prefix(s, n) ==
    SubSeq(s, 1, IF n < 0 THEN Len(s) + n ELSE IF n < Len(s) THEN n ELSE Len(s))

\* dict.get(key, default)
Get(d, key, default) == IF key \in DOMAIN d THEN d[key] ELSE default

-----------------------------------------------------------------------------
(* urllib.parse.urlparse: the netloc of a URL *)

\* 0-9 (str.isascii() and str.isdigit())
AsciiDigits == 48..57

\* ipaddress._BaseV6._HEX_DIGITS
HexDigits == AsciiDigits \cup (65..70) \cup (97..102)

\* a-z and A-Z (url[0].isascii() and url[0].isalpha())
AsciiLetters == (65..90) \cup (97..122)

\* urllib.parse.scheme_chars
SchemeChars == AsciiLetters \cup AsciiDigits \cup {43, 45, 46}

\* urlsplit's first steps: url.lstrip(C0 control or space), then the removal
\* of every tab, carriage return and line feed
UrlCleaned(url) ==
    LET keep == {i \in 1..Len(url) : url[i] > 32}
        stripped == IF keep = {} THEN <<>> ELSE SubSeq(url, SetMin(keep), Len(url))
    IN  SelectSeq(stripped, LAMBDA c : c \notin {9, 10, 13})

\* urlsplit's scheme step: what is left of the url once a scheme is split off
AfterScheme(url) ==
    LET colons == {i \in 1..Len(url) : url[i] = 58}
        k == IF colons = {} THEN 0 ELSE SetMin(colons)
    IN  IF /\ k > 1
           /\ url[1] \in AsciiLetters
           /\ \A i \in 1..(k - 1) : url[i] \in SchemeChars
        THEN SubSeq(url, k + 1, Len(url))
        ELSE url

\* _splitnetloc(url, 2)[0]: from the third character to the first of / ? #
SplitNetloc(url) ==
    LET stops == {i \in 3..Len(url) : url[i] \in {47, 63, 35}}
        delim == IF stops = {} THEN Len(url) + 1 ELSE SetMin(stops)
    IN  SubSeq(url, 3, delim - 1)

\* urlparse(url).netloc, when urlparse returns
Netloc(url) ==
    LET netloc(rest) == IF Len(rest) >= 2 /\ rest[1] = 47 /\ rest[2] = 47
                        THEN SplitNetloc(rest)
                        ELSE <<>>
    IN  netloc(AfterScheme(UrlCleaned(url)))

\* ipaddress._BaseV4._parse_octet returns
ValidOctet(octet) ==
    /\ octet # <<>>
    /\ Range(octet) \subseteq AsciiDigits
    /\ Len(octet) <= 3
    /\ (octet = <<48>> \/ octet[1] # 48)
    /\ (Len(octet) < 3
        \/ (octet[1] - 48) * 100 + (octet[2] - 48) * 10 + (octet[3] - 48) <= 255)

\* ipaddress.IPv4Address(text) returns
ValidIPv4(text) ==
    LET octets == SplitOn(text, 46)
    IN  Len(octets) = 4 /\ \A i \in 1..4 : ValidOctet(octets[i])

\* ipaddress._BaseV6._parse_hextet returns
ValidHextet(hextet) ==
    hextet # <<>> /\ Range(hextet) \subseteq HexDigits /\ Len(hextet) <= 4

\* ipaddress._BaseV6._ip_int_from_string returns
ValidIPv6Body(text) ==
    LET \* the n parts with one "::", which leaves an empty part at skip_index
        skipped(parts, n, skip_index) ==
            LET parts_hi == IF parts[1] = <<>> THEN skip_index - 2 ELSE skip_index - 1
                parts_lo == IF parts[n] = <<>> THEN n - skip_index - 1 ELSE n - skip_index
            IN  /\ parts[1] = <<>> => parts_hi = 0
                /\ parts[n] = <<>> => parts_lo = 0
                /\ 8 - (parts_hi + parts_lo) >= 1
                /\ \A i \in 1..n : parts[i] # <<>> => ValidHextet(parts[i])
        hextets(parts, n, skips) ==
            /\ n <= 9
            /\ Cardinality(skips) <= 1
            /\ IF skips # {}
               THEN skipped(parts, n, SetMin(skips))
               ELSE n = 8 /\ \A i \in 1..n : ValidHextet(parts[i])
        counted(parts) ==
            hextets(parts, Len(parts), {i \in 2..(Len(parts) - 1) : parts[i] = <<>>})
        \* an IPv4 suffix is replaced by its two hextets
        split(raw, suffix) ==
            /\ Len(raw) >= 3
            /\ suffix => ValidIPv4(raw[Len(raw)])
            /\ counted(IF suffix
                       THEN SubSeq(raw, 1, Len(raw) - 1) \o <<<<48>>, <<48>>>>
                       ELSE raw)
        colons(raw) == split(raw, Len(raw) >= 3 /\ 46 \in Range(raw[Len(raw)]))
    IN  colons(SplitOn(text, 58))

\* ipaddress.IPv6Address(text) returns: the scope id is split off first
ValidIPv6(text) ==
    LET marks == {i \in 1..Len(text) : text[i] = 37}
        addr == IF marks = {} THEN text ELSE SubSeq(text, 1, SetMin(marks) - 1)
        scope_id == IF marks = {} THEN <<>>
                    ELSE SubSeq(text, SetMin(marks) + 1, Len(text))
    IN  /\ marks # {} => (scope_id # <<>> /\ 37 \notin Range(scope_id))
        /\ ValidIPv6Body(addr)

\* re.match(r"\Av[a-fA-F0-9]+\..+\Z", hostname), for a hostname that starts
\* with v and holds no line feed
ValidIPvFuture(hostname) ==
    LET dots == {i \in 1..Len(hostname) : hostname[i] = 46}
        dot == SetMin(dots)
    IN  /\ dots # {}
        /\ dot >= 3
        /\ \A i \in 2..(dot - 1) : hostname[i] \in HexDigits
        /\ Len(hostname) > dot

\* _check_bracketed_host returns
check_bracketed_host(hostname) ==
    IF hostname # <<>> /\ hostname[1] = 118
    THEN ValidIPvFuture(hostname)
    ELSE ValidIPv6(hostname)

\* netloc.partition('[')[2].partition(']')[0]
BracketedHost(netloc) ==
    LET open == SetMin({i \in 1..Len(netloc) : netloc[i] = 91})
        after == SubSeq(netloc, open + 1, Len(netloc))
        closes == {i \in 1..Len(after) : after[i] = 93}
    IN  IF closes = {} THEN after ELSE SubSeq(after, 1, SetMin(closes) - 1)

\* urlparse(url) raises ValueError: an unbalanced bracket in the netloc, a
\* bracketed host that is no IPv6 or IPvFuture address, or a character of
\* the netloc whose NFKC form holds one of / ? # @ :
NetlocRaises(url) ==
    LET rejected(netloc, has_open, has_close) ==
            \/ has_open # has_close
            \/ has_open /\ has_close /\ ~check_bracketed_host(BracketedHost(netloc))
            \/ Range(netloc) \cap NetlocForbidden # {}
        brackets(netloc) == rejected(netloc, 91 \in Range(netloc), 93 \in Range(netloc))
    IN  brackets(Netloc(url))

-----------------------------------------------------------------------------
(* Numbers: the floats of the relevance scores *)

\* Natural numbers of any size, for the arithmetic on mantissas: a number is
\* the sequence of its digits to the base Radix, lowest first, the highest
\* not zero; the empty sequence is zero.
RadixBits == 14

Radix == 2 ^ RadixBits

Digit(a, i) == IF i <= Len(a) THEN a[i] ELSE 0

\* a without its highest digits that are zero
BigTrim(a) ==
    LET used == {i \in 1..Len(a) : a[i] # 0}
    IN  IF a = <<>> \/ a[Len(a)] # 0 THEN a
        ELSE IF used = {} THEN <<>>
        ELSE SubSeq(a, 1, SetMax(used))

\* n as a big number, for 0 <= n < 2^31
BigOfNat(n) == BigTrim(<<n % Radix, (n \div Radix) % Radix, n \div (Radix * Radix)>>)

\* a big number below 2^31 as an integer
BigToNat(a) == Digit(a, 1) + (Radix * Digit(a, 2)) + (Radix * Radix * Digit(a, 3))

\* a + b: the digits are added from the lowest, d the digits so far and c
\* the carry
BigAdd(a, b) ==
    LET n == Max(Len(a), Len(b))
        F[i \in 0..n] ==
            IF i = 0 THEN [d |-> <<>>, c |-> 0]
            ELSE LET p == F[i - 1]
                     s == Digit(a, i) + Digit(b, i) + p.c
                 IN  [d |-> Append(p.d, s % Radix), c |-> s \div Radix]
        r == F[n]
    IN  IF r.c = 0 THEN r.d ELSE Append(r.d, r.c)

\* a - b for a >= b
BigSub(a, b) ==
    LET F[i \in 0..Len(a)] ==
            IF i = 0 THEN [d |-> <<>>, c |-> 0]
            ELSE LET p == F[i - 1]
                     s == a[i] - Digit(b, i) - p.c
                 IN  [d |-> Append(p.d, (s + Radix) % Radix),
                      c |-> IF s < 0 THEN 1 ELSE 0]
    IN  BigTrim(F[Len(a)].d)

BigLess(a, b) ==
    IF Len(a) # Len(b) THEN Len(a) < Len(b)
    ELSE \E i \in 1..Len(a) : a[i] < b[i] /\ \A j \in (i + 1)..Len(a) : a[j] = b[j]

\* a * n for 0 <= n <= Radix
BigMulDigit(a, n) ==
    LET F[i \in 0..Len(a)] ==
            IF i = 0 THEN [d |-> <<>>, c |-> 0]
            ELSE LET p == F[i - 1]
                     s == (a[i] * n) + p.c
                 IN  [d |-> Append(p.d, s % Radix), c |-> s \div Radix]
        r == F[Len(a)]
    IN  IF n = 0 THEN <<>>
        ELSE IF r.c = 0 THEN r.d
        ELSE Append(r.d, r.c)

\* a * Radix^k
BigShiftDigits(a, k) == IF a = <<>> THEN <<>> ELSE Tuple([i \in 1..k |-> 0]) \o a

BigMul(a, b) ==
    LET sum[j \in 0..Len(b)] ==
            IF j = 0 THEN <<>>
            ELSE BigAdd(sum[j - 1], BigShiftDigits(BigMulDigit(a, b[j]), j - 1))
    IN  sum[Len(b)]

\* a * 2^k
BigShl(a, k) == BigShiftDigits(BigMulDigit(a, 2 ^ (k % RadixBits)), k \div RadixBits)

\* the quotient and the remainder of a by d, for 0 < d <= Radix
\* (the digits are divided from the highest, the k highest in step k)
BigDivMod(a, d) ==
    LET n == Len(a)
        F[k \in 0..n] ==
            IF k = 0 THEN [quot |-> <<>>, rem |-> 0]
            ELSE LET p == F[k - 1]
                     s == (p.rem * Radix) + a[n - k + 1]
                 IN  [quot |-> <<s \div d>> \o p.quot, rem |-> s % d]
        r == F[n]
    IN  [quot |-> BigTrim(r.quot), rem |-> r.rem]

\* a \div 2^k
BigShr(a, k) ==
    BigDivMod(SubSeq(a, (k \div RadixBits) + 1, Len(a)), 2 ^ (k % RadixBits)).quot

\* the bit of a of weight 2^i
BigBit(a, i) == (Digit(a, (i \div RadixBits) + 1) \div (2 ^ (i % RadixBits))) % 2

\* whether 2^k divides a
BigLowZero(a, k) ==
    /\ \A i \in 1..(k \div RadixBits) : Digit(a, i) = 0
    /\ Digit(a, (k \div RadixBits) + 1) % (2 ^ (k % RadixBits)) = 0

\* the number of bits of a
BigBitLen(a) ==
    IF a = <<>> THEN 0
    ELSE (RadixBits * (Len(a) - 1))
         + CHOOSE n \in 1..RadixBits : 2 ^ (n - 1) <= a[Len(a)] /\ a[Len(a)] < 2 ^ n

\* A float that is not negative is m * 2^e, with m = 0 and e = 0, or with
\* 2^52 <= m < 2^53 (53 bits, the precision of a Python float).  The scores
\* stay far from the largest and the smallest floats.
MantissaBits == 53

FZero == [m |-> <<>>, e |-> 0]

\* the float nearest to m * 2^e, the even one of two that are equally near
FRound(m, e) ==
    LET \* rounded * 2^x, where rounding up may have given 2^53
        normal(rounded, x) ==
            IF BigBitLen(rounded) > MantissaBits
            THEN [m |-> BigShr(rounded, 1), e |-> x + 1]
            ELSE [m |-> rounded, e |-> x]
        \* m without its drop lowest bits, which are kept; half or more
        \* rounds up, exactly half only from an odd number
        cut(kept, drop) ==
            normal(IF /\ BigBit(m, drop - 1) = 1
                      /\ (~BigLowZero(m, drop - 1) \/ kept[1] % 2 = 1)
                   THEN BigAdd(kept, <<1>>) ELSE kept,
                   e + drop)
        at(drop) ==
            IF drop <= 0 THEN [m |-> BigShl(m, 0 - drop), e |-> e + drop]
            ELSE cut(BigShr(m, drop), drop)
    IN  IF m = <<>> THEN FZero ELSE at(BigBitLen(m) - MantissaBits)

\* float(n) for a natural number n
FOfNat(n) == FRound(BigOfNat(n), 0)

\* the float a decimal literal stands for: the float nearest to num / den,
\* for 0 < den <= Radix; the quotient is taken to 64 binary places and its
\* last bit records whether anything was left
FOfRatio(num, den) ==
    LET sticky(q) == BigAdd(BigShl(q.quot, 1), IF q.rem = 0 THEN <<>> ELSE <<1>>)
    IN  FRound(sticky(BigDivMod(BigShl(BigOfNat(num), 64), den)), -65)

FLess(a, b) ==
    IF b.m = <<>> THEN FALSE
    ELSE IF a.m = <<>> THEN TRUE
    ELSE a.e < b.e \/ (a.e = b.e /\ BigLess(a.m, b.m))

FLeq(a, b) == ~FLess(b, a)

\* a + b
FAdd(a, b) ==
    LET aligned(e) == LET ms == [k \in 1..2 |-> BigShl(<<a, b>>[k].m, <<a, b>>[k].e - e)]
                      IN  FRound(BigAdd(ms[1], ms[2]), e)
    IN  IF a.m = <<>> THEN b
        ELSE IF b.m = <<>> THEN a
        ELSE aligned(Min(a.e, b.e))

\* a - b for a >= b
FSub(a, b) ==
    LET aligned(e) == LET ms == [k \in 1..2 |-> BigShl(<<a, b>>[k].m, <<a, b>>[k].e - e)]
                      IN  FRound(BigSub(ms[1], ms[2]), e)
    IN  IF b.m = <<>> THEN a
        ELSE aligned(Min(a.e, b.e))

\* a * b
FMul(a, b) ==
    IF a.m = <<>> \/ b.m = <<>> THEN FZero
    ELSE FRound(BigMul(a.m, b.m), a.e + b.e)

\* min(a, b)
FMin(a, b) == IF FLess(b, a) THEN b ELSE a

\* the number of hundredths nearest to the float a (for a below 2^17), the
\* even one of two that are equally near
Hundredths(a) ==
    LET \* n * 2^(-k) for k > 0, whole its integer part
        nearest(n, k, whole) ==
            whole + (IF /\ BigBit(n, k - 1) = 1
                        /\ (~BigLowZero(n, k - 1) \/ whole % 2 = 1)
                     THEN 1 ELSE 0)
        scaled(n, k) ==
            IF k <= 0 THEN BigToNat(BigShl(n, 0 - k))
            ELSE nearest(n, k, BigToNat(BigShr(n, k)))
    IN  IF a.m = <<>> THEN 0 ELSE scaled(BigMulDigit(a.m, 100), 0 - a.e)

-----------------------------------------------------------------------------
(* SearchQueryOptimizer *)

\* the year datetime.now() reports
CurrentYear == 2026

\* japanese_keywords, in insertion order
japanese_keywords == <<
    << <<\H6700, \H65b0>>, Chars("latest") >>,
    << <<\H73fe, \H5728>>, Chars("current") >>,
    << <<\H4eca, \H65e5>>, Chars("today") >>,
    << <<\H306b, \H3064, \H3044, \H3066>>, <<>> >>,
    << <<\H306b, \H95a2, \H3057, \H3066>>, <<>> >>,
    << <<\H3068, \H306f>>, Chars("what is") >>,
    << <<\H3069, \H306e, \H3088, \H3046, \H306b>>, Chars("how to") >>,
    << <<\H306a, \H305c>>, Chars("why") >> >>

\* search_modifiers
search_modifiers ==
    [news |-> Chars("site:news.google.com OR site:nhk.or.jp OR site:asahi.com"),
     academic |-> Chars("site:scholar.google.com OR site:researchgate.net"),
     official |-> Chars("site:go.jp OR site:gov OR site:edu"),
     recent |-> IntToStr(CurrentYear),
     technical |-> Chars("site:github.com OR site:stackoverflow.com")]

\* the ranges the cleaning regex names: hiragana, katakana, kanji
KanaKanjiRanges == {<<\H3040, \H309F>>, <<\H30A0, \H30FF>>, <<\H4E00, \H9FAF>>}

\* the class [^\w\s\u3040-\u309F\u30A0-\u30FF\u4E00-\u9FAF]: the characters
\* the cleaning regex replaces by a blank
IsNonWord(c) == ~IsWord(c) /\ ~IsSpace(c) /\ ~InRanges(c, KanaKanjiRanges)

\* _clean_query
clean_query(query) ==
    LET blanked == Tuple([i \in 1..Len(query) |->
                        IF IsNonWord(query[i]) THEN 32 ELSE query[i]])
    IN  Strip(CollapseSpaces(blanked))

\* _translate_to_english: the replacements applied in table order, then strip
translate_to_english(query) ==
    LET F[k \in 0..Len(japanese_keywords)] ==
            IF k = 0 THEN query
            ELSE Replace(F[k - 1], japanese_keywords[k][1], japanese_keywords[k][2])
    IN  Strip(F[Len(japanese_keywords)])

\* keywords that make optimize_query add a time-limited variant
recency_keywords ==
    {<<\H6700, \H65b0>>, <<\H73fe, \H5728>>, Chars("latest"), Chars("current")}

\* optimize_query: the variants in the order they are appended, before set()
optimize_query_list(original_query, search_type) ==
    LET variants(base_query, english_query, modifiers) ==
            <<base_query>>
            \o (IF english_query # base_query THEN <<english_query>> ELSE <<>>)
            \o (IF search_type \in DOMAIN modifiers
                THEN <<base_query \o <<32>> \o modifiers[search_type]>>
                ELSE <<>>)
            \o (IF \E k \in recency_keywords : Contains(Lower(original_query), k)
                THEN <<base_query \o Chars(" after:") \o IntToStr(CurrentYear - 1)>>
                ELSE <<>>)
            \o <<base_query \o Chars(" -advertisement -spam")>>
        translated(base_query) ==
            variants(base_query, translate_to_english(base_query), search_modifiers)
    IN  translated(clean_query(original_query))

\* set(optimized_queries)
optimize_query_set(original_query, search_type) ==
    Range(optimize_query_list(original_query, search_type))

\* the injective sequences over a finite set S: the orders list(set) may produce
Orderings(S) ==
    {f \in [1..Cardinality(S) -> S] : \A i, j \in 1..Cardinality(S) : f[i] = f[j] => i = j}


-----------------------------------------------------------------------------
(* Relevance scores *)

\* domains whose presence in the URL earns the reliability bonus
reliable_domains ==
    {Chars("wikipedia.org"), Chars("gov.jp"), Chars("go.jp"), Chars("edu"), Chars("ac.jp")}

\* the position term of _calculate_relevance: max(0, (10 - position) * 0.05),
\* which adds nothing from position 10 on
position_term(result) ==
    IF Get(result.meta_info, "position", 10) >= 10 THEN FZero
    ELSE FMul(FOfNat(10 - Get(result.meta_info, "position", 10)), FOfRatio(5, 100))

\* the score of _calculate_relevance before the clamp: the words of the query
\* found in the title weigh 0.3 each and those found in the content 0.2, a
\* reliable domain 0.2; the terms are added to the score one after another,
\* each sum rounded to a float
score(result, query_words, title_words, content_words) ==
    FAdd(FAdd(FAdd(FAdd(FZero,
                        FMul(FOfNat(Cardinality(query_words \cap title_words)),
                             FOfRatio(3, 10))),
                   FMul(FOfNat(Cardinality(query_words \cap content_words)),
                        FOfRatio(2, 10))),
              IF \E domain \in reliable_domains : Contains(Lower(result.url), domain)
              THEN FOfRatio(2, 10) ELSE FZero),
         position_term(result))

\* the score without the clamp to 1.0
calculate_relevance_unclamped(result, query) ==
    score(result, WordSet(Lower(query)), WordSet(Lower(result.title)),
          WordSet(Lower(result.content)))

\* _calculate_relevance: the score, clamped to 1.0
calculate_relevance(result, query) ==
    FMin(score(result, WordSet(Lower(query)), WordSet(Lower(result.title)),
               WordSet(Lower(result.content))),
         FOfNat(1))

\* the SearchResult built from one item of organic_results, not yet scored
organic_result(item) ==
    [title |-> Get(item, "title", <<>>),
     content |-> Get(item, "snippet", <<>>),
     url |-> Get(item, "link", <<>>),
     source |-> Chars("Google Search"),
     relevance_score |-> FZero,
     date |-> None,
     snippet |-> Get(item, "snippet", <<>>),
     meta_info |-> [position |-> Get(item, "position", 0),
                    domain |-> Netloc(Get(item, "link", <<>>))]]

\* the SearchResult built from one item of news_results, not yet scored
news_result(item) ==
    [title |-> Get(item, "title", <<>>),
     content |-> Get(item, "snippet", <<>>),
     url |-> Get(item, "link", <<>>),
     source |-> Chars("Google News"),
     relevance_score |-> FZero,
     date |-> Get(item, "date", <<>>),
     snippet |-> Get(item, "snippet", <<>>),
     meta_info |-> [source_name |-> Get(item, "source", <<>>),
                    is_news |-> TRUE]]

\* result.relevance_score = self._calculate_relevance(result, original_query),
\* with + 0.1 for a news result, for every result of the list
scored(results, original_query) ==
    LET bonus(result, relevance) == IF "is_news" \in DOMAIN result.meta_info
                                    THEN FAdd(relevance, FOfRatio(1, 10))
                                    ELSE relevance
    IN  Tuple([i \in 1..Len(results) |->
                [results[i] EXCEPT !.relevance_score =
                    bonus(results[i], calculate_relevance(results[i], original_query))]])

\* an order that puts a later result before an earlier one of equal score
ranks_before_strict(a, b) == FLess(b.relevance_score, a.relevance_score)

\* a before b in list.sort(key=relevance_score, reverse=True)
ranks_before(a, b) == FLeq(b.relevance_score, a.relevance_score)

\* list.sort(key=lambda x: x.relevance_score, reverse=True): descending, and
\* stable (equal scores keep their order)
sort_by_relevance(results) ==
    LET F[i \in 0..Len(results)] ==
            IF i = 0 THEN <<>>
            ELSE LET p == F[i - 1]
                     x == results[i]
                     n == Cardinality({j \in 1..Len(p) : ranks_before(p[j], x)})
                 IN  SubSeq(p, 1, n) \o <<x>> \o SubSeq(p, n + 1, Len(p))
    IN  F[Len(results)]

\* _parse_search_results raises: urlparse rejects the link of an organic item
parse_raises(data) ==
    LET organic_results == Get(data, "organic_results", <<>>)
    IN  \E i \in 1..Len(organic_results) :
            NetlocRaises(Get(organic_results[i], "link", <<>>))

\* the list results of _parse_search_results before it is sorted: the organic
\* results in the order of the payload, then the news results, each scored
collect_results(data, original_query) ==
    LET built(organic_results, news_results) ==
            Tuple([i \in 1..Len(organic_results) |-> organic_result(organic_results[i])])
            \o Tuple([i \in 1..Len(news_results) |-> news_result(news_results[i])])
    IN  scored(built(Get(data, "organic_results", <<>>),
                     Get(data, "news_results", <<>>)),
               original_query)

\* _parse_search_results, when it returns
parse_search_results(data, original_query) ==
    sort_by_relevance(collect_results(data, original_query))

-----------------------------------------------------------------------------
(* GoogleSearchAPI.search and its cache *)

\* cache_duration = timedelta(hours=1), in seconds
cache_duration == 3600

\* the text hashed into the cache key; the MD5 digest is taken to be
\* collision-free, so the digest is represented by the text it digests
cache_key(query, num_results, search_type) ==
    [md5 |-> query \o <<95>> \o IntToStr(num_results) \o <<95>> \o Chars(search_type)]

\* the freshness test with <= in place of <
cache_fresh_inclusive(t, timestamp) == t - timestamp <= cache_duration

\* datetime.now() - timestamp < self.cache_duration
cache_fresh(t, timestamp) == t - timestamp < cache_duration

\* the parameters of the HTTP GET
request_params(query, num_results, search_type) ==
    [q |-> query,
     engine |-> "google",
     num |-> Min(num_results, 20),
     hl |-> "ja", gl |-> "jp", safe |-> "active",
     tbm |-> IF search_type = "news" THEN "nws"
             ELSE IF search_type = "images" THEN "isch" ELSE "-"]

\* the timeout of the request of search, in seconds
request_timeout == 30

\* one HTTP exchange: the request, how it ended, how long it took, and
\* whether the body received was parsed into results
exchange(query, num_results, search_type, outcome, parsed) ==
    [request |-> request_params(query, num_results, search_type),
     outcome |-> outcome.kind,
     took |-> outcome.took,
     parsed |-> parsed]

\* the SearchResult objects a call of search creates: each result of the
\* parsed list with its identity.  A list is created for a key only when the
\* cache holds no fresh entry for it, so the key, the time of the store and
\* the place in the list tell the objects apart.
created(results, key, stored) ==
    Tuple([n \in 1..Len(results) |-> [id |-> <<key, stored, n>>] @@ results[n]])

\* search that stores the empty list when the request fails
search_caching_failure(c, t, query, num_results, search_type, outcome) ==
    LET looked_up(key, parsed, results) ==
            IF key \in DOMAIN c /\ cache_fresh(t, c[key].timestamp)
            THEN [results |-> c[key].results, cache |-> c, http |-> <<>>,
                  key |-> key, shared |-> TRUE, time |-> t]
            ELSE [results |-> IF parsed THEN results ELSE <<>>,
                  cache |-> (key :> [results |-> IF parsed THEN results ELSE <<>>,
                                     timestamp |-> t + outcome.took]) @@ c,
                  http |-> <<exchange(query, num_results, search_type, outcome, parsed)>>,
                  key |-> key, shared |-> TRUE, time |-> t + outcome.took]
    IN  looked_up(cache_key(query, num_results, search_type),
                  outcome.kind = "ok" /\ ~parse_raises(outcome.data),
                  created(parse_search_results(outcome.data, query),
                          cache_key(query, num_results, search_type),
                          t + outcome.took))

\* search(query, num_results, search_type) entered on cache c at time t, the
\* provider answering with outcome if it is asked: the list returned, the
\* cache afterwards, the HTTP exchanges, whether the returned list is the
\* list object the cache holds (shared) or a new empty list, and the time at
\* which the call returns.  The clock is read twice: on entry, for the
\* freshness test, and after the answer has been received and parsed, for the
\* timestamp of the entry; the request blocks for outcome.took seconds in
\* between.  Every exception of the request and of the parsing ends in the
\* handler that returns []; parsed tells that none was raised, and results
\* is the parsed list then.
search(c, t, query, num_results, search_type, outcome) ==
    LET looked_up(key, parsed, results) ==
            IF key \in DOMAIN c /\ cache_fresh(t, c[key].timestamp)
            THEN [results |-> c[key].results, cache |-> c, http |-> <<>>,
                  key |-> key, shared |-> TRUE, time |-> t]
            ELSE IF parsed
            THEN [results |-> results,
                  cache |-> (key :> [results |-> results,
                                     timestamp |-> t + outcome.took]) @@ c,
                  http |-> <<exchange(query, num_results, search_type, outcome, TRUE)>>,
                  key |-> key, shared |-> TRUE, time |-> t + outcome.took]
            ELSE [results |-> <<>>, cache |-> c,
                  http |-> <<exchange(query, num_results, search_type, outcome, FALSE)>>,
                  key |-> key, shared |-> FALSE, time |-> t + outcome.took]
    IN  looked_up(cache_key(query, num_results, search_type),
                  outcome.kind = "ok" /\ ~parse_raises(outcome.data),
                  created(parse_search_results(outcome.data, query),
                          cache_key(query, num_results, search_type),
                          t + outcome.took))

-----------------------------------------------------------------------------
(* FileBasedRAGSystem: ranking *)

\* deduplication that keeps the last result of each URL instead of the first
deduplicate_keep_last(results) ==
    LET F[i \in 0..Len(results)] ==
            IF i = 0 THEN <<>>
            ELSE LET p == F[i - 1]
                     others == {j \in 1..Len(p) : p[j].url # results[i].url}
                 IN  Tuple([k \in 1..Len(p) |->
                            IF p[k].url = results[i].url THEN results[i] ELSE p[k]])
                     \o (IF Cardinality(others) = Len(p) THEN <<results[i]>> ELSE <<>>)
    IN  F[Len(results)]

\* _deduplicate_results: a result is kept when no earlier result has its URL
deduplicate_results(results) ==
    LET F[i \in 0..Len(results)] ==
            IF i = 0 THEN <<>>
            ELSE LET p == F[i - 1]
                 IN  IF \E j \in 1..Len(p) : p[j].url = results[i].url
                     THEN p
                     ELSE Append(p, results[i])
    IN  F[Len(results)]

\* result.relevance_score *= (1.0 - i * 0.1) for every result of the list
decay(results, i) ==
    LET scaled(factor) ==
            Tuple([k \in 1..Len(results) |->
                    [results[k] EXCEPT !.relevance_score = FMul(@, factor)]])
    IN  scaled(FSub(FOfNat(1), FMul(FOfNat(i), FOfRatio(1, 10))))

\* a list held elsewhere after the objects of results were changed in place:
\* where it holds one of these objects, it shows the object as it is now.
\* An object that search did not create (it has no id here) is in no list
\* that search returns.
in_place(held, results) ==
    LET current(result, same) ==
            IF same = {} THEN result ELSE results[CHOOSE n \in same : TRUE]
    IN  Tuple([k \in 1..Len(held) |->
                current(held[k], {n \in 1..Len(results) :
                                    /\ "id" \in DOMAIN held[k]
                                    /\ results[n].id = held[k].id})])

\* num_results passed to search: max_results // len(optimized_queries) + 3
share(max_results, optimized_queries) == (max_results \div Len(optimized_queries)) + 3

\* number of variants the loop visits: len(optimized_queries[:3])
visited(optimized_queries) == Min(3, Len(optimized_queries))

\* whether the loop sleeps after the variant of index i (from 0)
pause_after(i, optimized_queries) == i < Len(optimized_queries) - 1

\* rank without the sort
rank_unsorted(unique_results, max_results) == Prefix(unique_results, max_results)

\* unique_results.sort(...); return unique_results[:max_results]
rank(unique_results, max_results) == Prefix(sort_by_relevance(unique_results), max_results)

-----------------------------------------------------------------------------
(* FileBasedRAGSystem: the search decision *)

\* search_triggers
search_triggers ==
    {<<\H6700, \H65b0>>, <<\H73fe, \H5728>>, <<\H4eca>>, <<\H4eca, \H65e5>>,
     <<\H4eca, \H5e74>>, Chars("2024") \o <<\H5e74>>, Chars("2025") \o <<\H5e74>>,
     Chars("latest"), Chars("current"), Chars("recent"), Chars("today"), Chars("now"),
     Chars("update"), <<\H30cb, \H30e5, \H30fc, \H30b9>>, Chars("news"),
     <<\H52d5, \H5411>>, Chars("trend"), <<\H72b6, \H6cc1>>, Chars("situation")}

\* the keyword lists of the search types
news_keywords ==
    {<<\H30cb, \H30e5, \H30fc, \H30b9>>, Chars("news"),
     <<\H4e8b, \H4ef6>>, <<\H4e8b, \H6545>>}

academic_keywords ==
    {<<\H7814, \H7a76>>, Chars("study"), <<\H8ad6, \H6587>>, <<\H5b66, \H8853>>}

official_keywords ==
    {<<\H653f, \H5e9c>>, <<\H516c, \H5f0f>>, Chars("official"), <<\H6cd5, \H5f8b>>}

technical_keywords ==
    {<<\H6280, \H8853>>, <<\H30d7, \H30ed, \H30b0, \H30e9, \H30e0>>,
     Chars("tech"), Chars("code")}

\* any(word in text for word in words)
ContainsAny(text, words) == \E w \in words : Contains(text, w)

\* should_search with the academic list consulted before the news list
should_search_academic_first(prompt) ==
    LET decision(prompt_lower) ==
            [needs_search |-> ContainsAny(prompt_lower, search_triggers),
             search_type |->
                IF ContainsAny(prompt_lower, academic_keywords) THEN "academic"
                ELSE IF ContainsAny(prompt_lower, news_keywords) THEN "news"
                ELSE IF ContainsAny(prompt_lower, official_keywords) THEN "official"
                ELSE IF ContainsAny(prompt_lower, technical_keywords) THEN "technical"
                ELSE "general"]
    IN  decision(Lower(prompt))

\* should_search
should_search(prompt) ==
    LET decision(prompt_lower) ==
            [needs_search |-> ContainsAny(prompt_lower, search_triggers),
             search_type |->
                IF ContainsAny(prompt_lower, news_keywords) THEN "news"
                ELSE IF ContainsAny(prompt_lower, academic_keywords) THEN "academic"
                ELSE IF ContainsAny(prompt_lower, official_keywords) THEN "official"
                ELSE IF ContainsAny(prompt_lower, technical_keywords) THEN "technical"
                ELSE "general"]
    IN  decision(Lower(prompt))

-----------------------------------------------------------------------------
(* FileInfoManager *)

\* base_directory of the file manager
base_directory == <<46>>

supported_extensions ==
    {Chars(".txt"), Chars(".md"), Chars(".json"), Chars(".csv"), Chars(".log")}

\* os.path.isabs
IsAbs(path) == Len(path) > 0 /\ path[1] = 47

\* os.path.join(a, b) for a relative b
Join(a, b) == IF a = <<>> \/ a[Len(a)] = 47 THEN a \o b ELSE a \o <<47>> \o b

\* os.path.basename: what follows the last slash
Basename(path) ==
    LET slashes == {i \in 1..Len(path) : path[i] = 47}
    IN  IF slashes = {} THEN path
        ELSE LET last == CHOOSE i \in slashes : \A j \in slashes : j <= i
             IN  SubSeq(path, last + 1, Len(path))

\* os.path.splitext(path)[1]: from the last dot of the base name, unless only
\* dots precede it
Ext(path) ==
    LET name == Basename(path)
        dots == {i \in 1..Len(name) : name[i] = 46}
    IN  IF dots = {} THEN <<>>
        ELSE LET last == CHOOSE i \in dots : \A j \in dots : j <= i
             IN  IF \A j \in 1..last : name[j] = 46 THEN <<>>
                 ELSE SubSeq(name, last, Len(name))

\* _load_single_file on the file system fs, a function from the paths that
\* exist to [opens, content, encoding, file_size, last_modified]: opens tells
\* whether open() succeeds on the path (it fails on a directory and on a file
\* without read permission), and the content is None when the file opens and
\* no read of it succeeds.  The result tells whether the call raised and, if
\* it did not, holds the sequence of the one AdditionalInfo loaded, or the
\* empty sequence for None.  The call raises when the file cannot be opened:
\* _detect_encoding opens it outside the try block and catches
\* UnicodeDecodeError only.
load_single_file(fs, path) ==
    LET file_path == IF IsAbs(path) THEN path ELSE Join(base_directory, path)
    IN  IF file_path \notin DOMAIN fs THEN [raised |-> FALSE, info |-> <<>>]
        ELSE IF Ext(Lower(file_path)) \notin supported_extensions
        THEN [raised |-> FALSE, info |-> <<>>]
        ELSE IF ~fs[file_path].opens THEN [raised |-> TRUE, info |-> <<>>]
        ELSE IF fs[file_path].content = None THEN [raised |-> FALSE, info |-> <<>>]
        ELSE [raised |-> FALSE,
              info |-> <<[file_path |-> file_path,
                          content |-> fs[file_path].content,
                          encoding |-> fs[file_path].encoding,
                          file_size |-> fs[file_path].file_size,
                          last_modified |-> fs[file_path].last_modified]>>]

\* load_additional_info: the infos of the paths that load, in the order
\* given; a path on which _load_single_file raises is skipped by the handler
\* of the loop
load_additional_info(fs, file_paths) ==
    LET loaded(r) == IF r.raised THEN <<>> ELSE r.info
        F[k \in 0..Len(file_paths)] ==
            IF k = 0 THEN <<>>
            ELSE F[k - 1] \o loaded(load_single_file(fs, file_paths[k]))
    IN  F[Len(file_paths)]

-----------------------------------------------------------------------------
(* FileBasedRAGSystem: the contexts and the final prompt *)

\* how an f-string shows a text or None
Str(x) == IF x = None THEN Chars("None") ELSE x

\* "...(shouryaku)", the mark of a cut content
Ellipsis == Chars("...(") \o <<\H7701, \H7565>> \o <<41>>

FileContextOpen ==
    Chars("\n\n=== ")
    \o <<\H63d0, \H4f9b, \H6e08, \H307f, \H8ffd, \H52a0, \H60c5, \H5831>>
    \o Chars(" ===\n")

FileContextClose ==
    Chars("=== ") \o <<\H8ffd, \H52a0, \H60c5, \H5831, \H7d42, \H4e86>>
    \o Chars(" ===\n\n")

\* file_header of the i-th file
file_header(i, info) ==
    (<<\H1f4c4, 32, \H30d5, \H30a1, \H30a4, \H30eb, 32>>
        \o IntToStr(i) \o Chars(": ") \o Basename(info.file_path) \o <<10>>)
    \o (<<32, 32, 32, \H66f4, \H65b0, \H65e5, \H6642, 58, 32>>
        \o Str(info.last_modified) \o <<10>>)
    \o (<<32, 32, 32, \H30d5, \H30a1, \H30a4, \H30eb, \H30b5, \H30a4, \H30ba,
           58, 32>>
        \o IntToStr(info.file_size) \o Chars(" bytes\n"))
    \o <<32, 32, 32, \H5185, \H5bb9, 58, 10>>

\* the line that stands for the n files left out
files_omitted(n) ==
    <<46, 46, 46, 32, 40, \H4ed6, 32>> \o IntToStr(n)
    \o <<32, \H30d5, \H30a1, \H30a4, \H30eb, \H7701, \H7565, 41, 10>>

\* format_file_context
format_file_context(additional_infos, max_length) ==
    IF additional_infos = <<>> THEN <<>>
    ELSE
    LET n == Len(additional_infos)
        F[i \in 0..n] ==
            IF i = 0
            THEN [context |-> FileContextOpen,
                  current_length |-> Len(FileContextOpen), broke |-> FALSE]
            ELSE
            LET p == F[i - 1]
                info == additional_infos[i]
                header == file_header(i, info)
                remaining_length == max_length - p.current_length - Len(header) - 100
                content_preview ==
                    IF remaining_length > 0
                    THEN Prefix(info.content, remaining_length)
                         \o (IF Len(info.content) > remaining_length
                             THEN Ellipsis ELSE <<>>)
                    ELSE Prefix(info.content, 200) \o Ellipsis
                file_text == header \o content_preview \o Chars("\n\n")
            IN  IF p.broke THEN p
                ELSE IF p.current_length + Len(file_text) > max_length
                THEN [p EXCEPT !.context = @ \o files_omitted(n - i + 1),
                               !.broke = TRUE]
                ELSE [context |-> p.context \o file_text,
                      current_length |-> p.current_length + Len(file_text),
                      broke |-> FALSE]
    IN  F[n].context \o FileContextClose

\* n as two digits
TwoDigits(n) == <<Digits[(n \div 10) + 1], Digits[(n % 10) + 1]>>

\* datetime.now().strftime('%Y-%m-%d %H:%M:%S') at the time t, the clock
\* having started at midnight of the first day of CurrentYear
strftime(t) ==
    IntToStr(CurrentYear) \o Chars("-01-") \o TwoDigits((t \div 86400) + 1) \o <<32>>
    \o TwoDigits((t % 86400) \div 3600) \o <<58>>
    \o TwoDigits((t % 3600) \div 60) \o <<58>>
    \o TwoDigits(t % 60)

\* f"{score:.2f}" for a score that is not negative: the hundredth nearest
\* to the float
Format2f(relevance) ==
    LET digits(h) == IntToStr(h \div 100) \o Chars(".") \o TwoDigits(h % 100)
    IN  digits(Hundredths(relevance))

SearchContextOpen ==
    Chars("\n\n=== Web") \o <<\H691c, \H7d22, \H60c5, \H5831>> \o Chars(" ===\n")

SearchContextClose ==
    Chars("=== Web") \o <<\H691c, \H7d22, \H60c5, \H5831, \H7d42, \H4e86>>
    \o Chars(" ===\n\n")

\* result_text of the i-th result
result_text(i, result) ==
    (<<\H1f50d, 32, \H691c, \H7d22, \H7d50, \H679c, 32>>
        \o IntToStr(i) \o Chars(": ") \o result.title \o <<10>>)
    \o (IF result.date # None /\ result.date # <<>>
        THEN <<32, 32, 32, \H65e5, \H4ed8, 58, 32>> \o result.date \o <<10>>
        ELSE <<>>)
    \o (<<32, 32, 32, \H5185, \H5bb9, 58, 32>>
        \o Prefix(result.content, 250) \o <<10>>)
    \o (<<32, 32, 32, \H4fe1, \H983c, \H5ea6, 58, 32>>
        \o Format2f(result.relevance_score) \o <<10>>)
    \o (Chars("   URL: ") \o result.url \o Chars("\n\n"))

\* the line that stands for the n results left out
results_omitted(n) ==
    <<46, 46, 46, 32, 40, \H4ed6, 32>> \o IntToStr(n)
    \o <<32, \H4ef6, \H7701, \H7565, 41, 10>>

\* format_search_context, called at the time t
format_search_context(results, max_length, t) ==
    IF results = <<>> THEN <<>>
    ELSE
    LET n == Len(results)
        open == SearchContextOpen
                \o <<\H691c, \H7d22, \H65e5, \H6642>> \o Chars(": ")
                \o strftime(t) \o Chars("\n\n")
        F[i \in 0..n] ==
            IF i = 0
            THEN [context |-> open, current_length |-> Len(open), broke |-> FALSE]
            ELSE
            LET added(p, text) ==
                    IF p.broke THEN p
                    ELSE IF p.current_length + Len(text) > max_length
                    THEN [p EXCEPT !.context = @ \o results_omitted(n - i + 1),
                                   !.broke = TRUE]
                    ELSE [context |-> p.context \o text,
                          current_length |-> p.current_length + Len(text),
                          broke |-> FALSE]
            IN  added(F[i - 1], result_text(i, results[i]))
    IN  F[n].context \o SearchContextClose

\* the merge that puts the file context first whatever the priority
combine_file_first(priority, file_context, search_context) ==
    file_context \o search_context

\* combined_context of generate_response
combine(priority, file_context, search_context) ==
    IF priority = "high" THEN file_context \o search_context
    ELSE IF priority = "low" THEN search_context \o file_context
    ELSE file_context \o search_context

\* the text of the template between the context and the question
TemplateLead ==
    Chars("\n\n")
    \o <<\H4e0a, \H8a18, \H306e, \H60c5, \H5831, \H3092, \H53c2, \H8003,
         \H306b, \H3057, \H3066, \H3001, \H4ee5, \H4e0b, \H306e, \H8cea,
         \H554f, \H306b, \H8a73, \H3057, \H304f, \H56de, \H7b54, \H3057,
         \H3066, \H304f, \H3060, \H3055, \H3044, \H3002>>
    \o Chars("\n\n") \o <<\H3010, \H8cea, \H554f, \H3011>> \o Chars("\n")

\* the text of the template after the question
TemplateTail ==
    Chars("\n\n") \o <<\H3010, \H56de, \H7b54, \H6307, \H793a, \H3011>>
    \o Chars("\n- ")
    \o <<\H63d0, \H4f9b, \H3055, \H308c, \H305f, \H8ffd, \H52a0, \H60c5,
         \H5831, \H3068>> \o Chars("Web")
    \o <<\H691c, \H7d22, \H7d50, \H679c, \H3092, \H6d3b, \H7528, \H3057,
         \H3066, \H304f, \H3060, \H3055, \H3044>>
    \o Chars("\n- ")
    \o <<\H5177, \H4f53, \H7684, \H3067, \H5b9f, \H7528, \H7684, \H306a,
         \H56de, \H7b54, \H3092, \H63d0, \H4f9b, \H3057, \H3066, \H304f,
         \H3060, \H3055, \H3044>>
    \o Chars("\n- ")
    \o <<\H60c5, \H5831, \H6e90, \H304c, \H3042, \H308b, \H5834, \H5408,
         \H306f, \H9069, \H5207, \H306b, \H53c2, \H7167, \H3057, \H3066,
         \H304f, \H3060, \H3055, \H3044>>
    \o Chars("\n- ")
    \o <<\H56de, \H7b54, \H3092, \H9014, \H4e2d, \H3067, \H6b62, \H3081,
         \H305a, \H3001, \H5b8c, \H5168, \H306a, \H5185, \H5bb9, \H3092,
         \H63d0, \H4f9b, \H3057, \H3066, \H304f, \H3060, \H3055, \H3044>>
    \o Chars("\n- ")
    \o <<\H6700, \H5f8c, \H306b, \H8981, \H70b9, \H3092, \H307e, \H3068,
         \H3081, \H3066, \H304f, \H3060, \H3055, \H3044>>
    \o Chars("\n\n") \o <<\H3010, \H56de, \H7b54, \H3011>>

\* the prompt wrapped in the template whether or not there is a context
build_final_prompt_always_wrapped(original_prompt, context) ==
    context \o TemplateLead \o original_prompt \o TemplateTail

\* _build_final_prompt (the config argument is not used)
build_final_prompt(original_prompt, context) ==
    IF context = <<>> THEN original_prompt
    ELSE context \o TemplateLead \o original_prompt \o TemplateTail

\* the kinds of line of a stream.  "empty": a keep-alive line, not looked at;
\* "malformed": text that json.loads rejects (JSONDecodeError); "undecodable":
\* bytes that are not UTF-8 (line.decode raises UnicodeDecodeError); "json":
\* a JSON object, its members in data; "json_value": JSON that is not an
\* object (a number, a string, a list, null), on which the membership test,
\* the subscript or .get raises.
LineKinds == {"empty", "malformed", "undecodable", "json", "json_value"}

\* the loop over response.iter_lines(): the deltas printed, whether the loop
\* left at a line that is done, and whether a line raised an exception that
\* the inner handler does not catch
consume(lines) ==
    LET F[i \in 0..Len(lines)] ==
            IF i = 0 THEN [out |-> <<>>, done |-> FALSE, failed |-> FALSE]
            ELSE
            LET p == F[i - 1]
                line == lines[i]
            IN  IF p.done \/ p.failed THEN p
                ELSE IF line.kind \in {"empty", "malformed"} THEN p
                ELSE IF line.kind \in {"undecodable", "json_value"}
                THEN [p EXCEPT !.failed = TRUE]
                ELSE [out |-> p.out \o Get(line.data, "response", <<>>),
                      done |-> Get(line.data, "done", FALSE),
                      failed |-> FALSE]
    IN  F[Len(lines)]

\* the deltas _generate_llm_response prints for a stream of lines
emitted(lines) == consume(lines).out

\* the timeout of the request of _generate_llm_response, in seconds
llm_timeout == 120

\* _generate_llm_response on the reply of the model server: the deltas printed
\* and the number of error messages printed.  The reply is a failed request,
\* or a stream of lines that ends ("eof") or breaks off after them ("broken");
\* every exception is caught by the outer handler, which prints one message.
generate_llm_response(reply) ==
    IF reply.kind # "ok" THEN [out |-> <<>>, errors |-> 1]
    ELSE LET r == consume(reply.lines)
             failed == r.failed \/ (~r.done /\ reply.ends = "broken")
         IN  [out |-> r.out, errors |-> IF failed THEN 1 ELSE 0]

-----------------------------------------------------------------------------
(* The state machine *)

NoFrame == [op |-> "none"]

\* the state after construction, with or without an API key
Init ==
    /\ now = 0
    /\ cache = << >>
    /\ google_search \in BOOLEAN
    /\ pc = "idle"
    /\ call = NoFrame
    /\ ret = <<>>
    /\ http = <<>>
    /\ sr = NoFrame
    /\ gr = NoFrame
    /\ calls = 0

\* the state after construction with the call c made
Called(c) ==
    /\ now = 0
    /\ cache = << >>
    /\ pc = "called"
    /\ call = c
    /\ ret = <<>>
    /\ http = <<>>
    /\ sr = NoFrame
    /\ gr = NoFrame
    /\ calls = 1

\* the caller makes the call c
Invoke(c) ==
    /\ pc = "idle"
    /\ calls < MaxCalls
    /\ pc' = "called"
    /\ call' = c
    /\ calls' = calls + 1
    /\ http' = <<>>
    /\ UNCHANGED <<now, cache, google_search, ret, sr, gr>>

\* _parse_search_results on the payload call.data; sr records whether the
\* call raised and the list results as it was before the sort
Parse ==
    /\ pc = "called"
    /\ call.op = "parse"
    /\ \E raised \in {parse_raises(call.data)} :
           /\ ret' = IF raised THEN <<>> ELSE parse_search_results(call.data, call.query)
           /\ sr' = [op |-> "parse", raised |-> raised,
                     collected |-> IF raised THEN <<>>
                                   ELSE collect_results(call.data, call.query)]
    /\ pc' = "idle"
    /\ UNCHANGED <<now, cache, google_search, call, http, gr, calls>>

\* the caller keeps the list _parse_search_results returned, and the list as
\* it was collected, and calls search_and_rank on the same instance
RankAfterParse(c) ==
    /\ pc = "idle"
    /\ call.op = "parse"
    /\ ~sr.raised
    /\ calls < MaxCalls
    /\ calls' = calls + 1
    /\ gr' = [op |-> "parse_caller", parsed |-> ret, collected |-> sr.collected]
    /\ call' = c
    /\ http' = <<>>
    /\ pc' = "called"
    /\ UNCHANGED <<now, cache, google_search, ret, sr>>

\* should_search as a function of the prompt
ShouldSearch ==
    /\ pc = "called"
    /\ call.op = "should_search"
    /\ ret' = should_search(call.prompt)
    /\ pc' = "idle"
    /\ UNCHANGED <<now, cache, google_search, call, http, sr, gr, calls>>

\* GoogleSearchAPI.search, called directly; sr keeps the cache and the time
\* the call was entered with, and the time at which it returned.  The call
\* runs to its return in one step, the program having one thread; the time
\* the request blocks has passed when it returns.
Search(outcome) ==
    /\ pc = "called"
    /\ call.op = "search"
    /\ \E r \in {search(cache, now, call.query, call.num_results, call.search_type, outcome)} :
           /\ cache' = r.cache
           /\ ret' = r.results
           /\ http' = r.http
           /\ now' = r.time
           /\ sr' = [op |-> "search", cache_before |-> cache, time |-> now,
                     returned |-> r.time]
    /\ pc' = "idle"
    /\ UNCHANGED <<google_search, call, gr, calls>>

\* amounts of time that pass between calls
ClockSteps == {cache_duration - 1, cache_duration}

\* time passes while the program is idle
AdvanceClock(d) ==
    /\ pc = "idle"
    /\ now + d <= MaxCalls * cache_duration
    /\ now' = now + d
    /\ UNCHANGED <<cache, google_search, pc, call, ret, http, sr, gr, calls>>

\* the locals of search_and_rank on entry, the variants in the order oq
rank_frame(query, search_type, max_results, oq, caller) ==
    [op |-> "search_and_rank", query |-> query, search_type |-> search_type,
     max_results |-> max_results, optimized_queries |-> oq, i |-> 0,
     all_results |-> <<>>, unique_results |-> <<>>, events |-> <<>>,
     caller |-> caller]

\* search_and_rank without a search client: returns [] at once
RankNoClient ==
    /\ pc = "called"
    /\ call.op = "search_and_rank"
    /\ ~google_search
    /\ ret' = <<>>
    /\ pc' = "idle"
    /\ UNCHANGED <<now, cache, google_search, call, http, sr, gr, calls>>

\* search_and_rank, up to the loop: list(set(...)) yields the variants in some order
RankStart ==
    /\ pc = "called"
    /\ call.op = "search_and_rank"
    /\ google_search
    /\ \E oq \in Orderings(optimize_query_set(call.query, call.search_type)) :
            sr' = rank_frame(call.query, call.search_type, call.max_results, oq, "caller")
    /\ pc' = "sr_loop"
    /\ UNCHANGED <<now, cache, google_search, call, ret, http, gr, calls>>

\* one iteration of the loop over optimized_queries[:3]: the search, the decay
\* of the scores of the returned results (the objects the cache holds, when
\* the list is the cache's, and the objects of a list returned earlier that
\* the caller still holds), and the pause.  Time passes twice: while the
\* request blocks, and in the sleep.
RankIterate(outcome) ==
    /\ pc = "sr_loop"
    /\ sr.i < visited(sr.optimized_queries)
    /\ LET opt_query == sr.optimized_queries[sr.i + 1]
           pause == pause_after(sr.i, sr.optimized_queries)
       IN  \E r \in {search(cache, now, opt_query,
                            share(sr.max_results, sr.optimized_queries),
                            sr.search_type, outcome)} :
           \E results \in {decay(r.results, sr.i)} :
           /\ cache' = IF r.shared
                       THEN [r.cache EXCEPT ![r.key].results = results]
                       ELSE r.cache
           /\ http' = http \o r.http
           /\ sr' = [sr EXCEPT
                        !.i = @ + 1,
                        !.all_results = @ \o results,
                        !.events = @ \o <<[ev |-> "query", q |-> opt_query]>>
                                     \o (IF pause THEN <<[ev |-> "sleep", seconds |-> 1]>>
                                         ELSE <<>>)]
           /\ now' = IF pause THEN r.time + 1 ELSE r.time
           /\ ret' = in_place(ret, results)
           /\ gr' = IF gr.op = "caller"
                    THEN [gr EXCEPT !.first = in_place(@, results)]
                    ELSE gr
    /\ UNCHANGED <<google_search, pc, call, calls>>

\* after the loop: deduplicate, sort, truncate, return
RankFinish ==
    /\ pc = "sr_loop"
    /\ sr.i >= visited(sr.optimized_queries)
    /\ \E unique_results \in {deduplicate_results(sr.all_results)} :
       \E ranked \in {rank(unique_results, sr.max_results)} :
           /\ sr' = [sr EXCEPT !.unique_results = unique_results]
           /\ IF sr.caller = "generate_response"
              THEN /\ gr' = [gr EXCEPT !.search_results = ranked]
                   /\ pc' = "gr_merge"
                   /\ ret' = ret
              ELSE /\ ret' = ranked
                   /\ pc' = "idle"
                   /\ gr' = gr
    /\ UNCHANGED <<now, cache, google_search, call, http, calls>>

\* generate_response, step 1: load the additional files and format them
GenFiles ==
    /\ pc = "called"
    /\ call.op = "generate_response"
    /\ LET file_paths == Get(call.prompt_config, "additional_info_files", <<>>)
       IN  \E additional_infos \in {IF file_paths # <<>>
                                    THEN load_additional_info(call.fs, file_paths)
                                    ELSE <<>>} :
           LET file_context ==
               IF additional_infos # <<>>
               THEN format_file_context(
                        additional_infos,
                        Get(call.prompt_config, "max_file_content_length", 3000))
               ELSE <<>>
           IN
           gr' = [op |-> "generate_response",
                  additional_infos |-> additional_infos,
                  file_context |-> file_context,
                  searched |-> FALSE,
                  search_results |-> <<>>,
                  search_context |-> <<>>,
                  combined_context |-> <<>>,
                  final_prompt |-> <<>>]
    /\ pc' = "gr_search"
    /\ UNCHANGED <<now, cache, google_search, call, ret, http, sr, calls>>

\* whether generate_response runs the web search
wants_search(prompt, prompt_config, client) ==
    /\ Get(prompt_config, "enable_web_search", FALSE)
    /\ client
    /\ should_search(prompt).needs_search

\* generate_response, step 2, no search: web search is off, there is no
\* client, or the prompt holds no trigger
GenSkipSearch ==
    /\ pc = "gr_search"
    /\ ~wants_search(call.prompt, call.prompt_config, google_search)
    /\ pc' = "gr_merge"
    /\ UNCHANGED <<now, cache, google_search, call, ret, http, sr, gr, calls>>

\* generate_response, step 2, search: enters search_and_rank(prompt, search_type)
\* with the default max_results
GenStartSearch ==
    /\ pc = "gr_search"
    /\ wants_search(call.prompt, call.prompt_config, google_search)
    /\ LET search_type == should_search(call.prompt).search_type
       IN  \E oq \in Orderings(optimize_query_set(call.prompt, search_type)) :
                sr' = rank_frame(call.prompt, search_type, 15, oq, "generate_response")
    /\ gr' = [gr EXCEPT !.searched = TRUE]
    /\ pc' = "sr_loop"
    /\ UNCHANGED <<now, cache, google_search, call, ret, http, calls>>

\* generate_response, steps 3 and 4: format the search results, merge the two
\* contexts by priority, build the final prompt
GenMerge ==
    /\ pc = "gr_merge"
    /\ LET priority == Get(call.prompt_config, "file_info_priority", "high")
       IN  \E search_context \in {IF gr.search_results # <<>>
                                  THEN format_search_context(gr.search_results, 2000, now)
                                  ELSE <<>>} :
           \E combined_context \in {combine(priority, gr.file_context, search_context)} :
           gr' = [gr EXCEPT
                    !.search_context = search_context,
                    !.combined_context = combined_context,
                    !.final_prompt = build_final_prompt(call.prompt, combined_context)]
    /\ pc' = "gr_llm"
    /\ UNCHANGED <<now, cache, google_search, call, ret, http, sr, calls>>

\* generate_response, step 5: _generate_llm_response posts the final prompt;
\* the model answers with a stream of lines or the request fails
GenRespond(reply) ==
    /\ pc = "gr_llm"
    /\ http' = Append(http, [request |-> [prompt |-> gr.final_prompt, stream |-> TRUE],
                             outcome |-> reply.kind, reply |-> reply])
    /\ ret' = generate_llm_response(reply)
    /\ now' = now + reply.took
    /\ pc' = "idle"
    /\ UNCHANGED <<cache, google_search, call, sr, gr, calls>>

\* _generate_llm_response, called directly
GenerateLlmResponse(reply) ==
    /\ pc = "called"
    /\ call.op = "generate_llm_response"
    /\ http' = Append(http, [request |-> [prompt |-> call.prompt, stream |-> TRUE],
                             outcome |-> reply.kind, reply |-> reply])
    /\ ret' = generate_llm_response(reply)
    /\ now' = now + reply.took
    /\ pc' = "idle"
    /\ UNCHANGED <<cache, google_search, call, sr, gr, calls>>

\* optimize_query: the variants, in one of the orders list(set(...)) may give
OptimizeQuery ==
    /\ pc = "called"
    /\ call.op = "optimize_query"
    /\ \E oq \in Orderings(optimize_query_set(call.original_query, call.search_type)) :
            ret' = oq
    /\ pc' = "idle"
    /\ UNCHANGED <<now, cache, google_search, call, http, sr, gr, calls>>

\* format_file_context, called directly
FormatFileContext ==
    /\ pc = "called"
    /\ call.op = "format_file_context"
    /\ ret' = format_file_context(call.additional_infos, call.max_length)
    /\ pc' = "idle"
    /\ UNCHANGED <<now, cache, google_search, call, http, sr, gr, calls>>

\* the caller keeps the list the first call returned (first), notes the
\* scores it holds at that moment (first_scores), and calls search_and_rank
\* again with the same arguments; the variants come in the order of the first
\* call, the order of a set of the same strings being fixed within a process
CallAgain ==
    /\ pc = "idle"
    /\ call.op = "search_and_rank"
    /\ google_search
    /\ calls < MaxCalls
    /\ calls' = calls + 1
    /\ gr' = [op |-> "caller", first |-> ret,
              first_scores |-> Tuple([k \in 1..Len(ret) |-> ret[k].relevance_score])]
    /\ sr' = rank_frame(call.query, call.search_type, call.max_results,
                        sr.optimized_queries, "caller")
    /\ http' = <<>>
    /\ pc' = "sr_loop"
    /\ UNCHANGED <<now, cache, google_search, call, ret>>

-----------------------------------------------------------------------------
(* Inputs *)

PayloadA ==
    [organic_results |->
        << [title |-> Chars("AI news today"), snippet |-> Chars("the latest ai"),
            link |-> Chars("https://example.com/ai"), position |-> 1],
           [title |-> Chars("weather"), snippet |-> Chars("rain"),
            link |-> Chars("https://example.com/weather"), position |-> 2],
           [title |-> Chars("sports"), snippet |-> Chars("goal"),
            link |-> Chars("https://example.org/sports"), position |-> 11] >>,
     news_results |->
        << [title |-> Chars("ai"), snippet |-> Chars("ai"),
            link |-> Chars("https://news.example.com/ai"),
            date |-> Chars("2 days ago"), source |-> Chars("Example") ] >>]

PayloadB ==
    [organic_results |->
        << [title |-> Chars("ai wiki"), snippet |-> Chars("about ai"),
            link |-> Chars("https://ja.wikipedia.org/wiki/AI")],
           [title |-> Chars("AI news today"), snippet |-> Chars("the latest ai"),
            link |-> Chars("https://example.com/ai"), position |-> 9],
           [title |-> Chars("travel"), snippet |-> Chars("train"),
            link |-> Chars("https://example.org/travel"), position |-> 10] >>]

\* a body with a link that urlparse rejects
PayloadBadLink ==
    [organic_results |->
        << [title |-> Chars("AI news today"), snippet |-> Chars("the latest ai"),
            link |-> Chars("https://example.com/ai"), position |-> 1],
           [title |-> Chars("weather"), snippet |-> Chars("rain"),
            link |-> Chars("http://[example.com/weather"), position |-> 2] >>]

\* failures of a request that search catches
FailureKinds == {"status", "transport", "timeout", "badjson"}

\* what a request can end in, after took seconds: a 2xx answer with a JSON
\* body, at once or after a wait, or a failure; a timeout after the full
\* timeout of the request
Outcomes ==
    {[kind |-> "ok", data |-> PayloadA, took |-> 0],
     [kind |-> "ok", data |-> PayloadA, took |-> 10],
     [kind |-> "ok", data |-> PayloadB, took |-> 10],
     [kind |-> "ok", data |-> PayloadBadLink, took |-> 10],
     [kind |-> "status", took |-> 0],
     [kind |-> "transport", took |-> 10],
     [kind |-> "badjson", took |-> 10],
     [kind |-> "timeout", took |-> request_timeout]}

\* the last query is "École ai"
ScoreQueries ==
    {<<>>, Chars("ai"), Chars("latest AI news"), <<\HC9>> \o Chars("cole ai")}

\* the last title is "ÉCOLE", a no-break space, "AI"
SampleTitles ==
    {<<>>, Chars("AI news today"), Chars("ai ai"),
     <<\HC9>> \o Chars("COLE") \o <<\HA0>> \o Chars("AI")}

SampleSnippets == {<<>>, Chars("the latest ai"), Chars("weather")}

\* links: none, plain, with a blank in front, and one that urlparse rejects
SampleLinks ==
    {<<>>, Chars("https://ja.wikipedia.org/wiki/AI"), Chars("https://example.com/ai"),
     Chars(" HTTPS://www.Go.JP/ai"), Chars("http://[example.com/ai")}

\* positions; at position 8 the position term equals the bonus of a news
\* result
SamplePositions == {-3, 0, 1, 4, 5, 8, 10, 12}

\* provider items, with and without a position
ScoreItems ==
    {[title |-> t, snippet |-> s, link |-> l] :
        t \in SampleTitles, s \in SampleSnippets, l \in SampleLinks}
    \cup
    {[title |-> x[1], snippet |-> x[2], link |-> x[3], position |-> x[4]] :
        x \in SampleTitles \X SampleSnippets \X SampleLinks \X SamplePositions}

\* calls of _parse_search_results on a payload that lists one item once as
\* an organic and once as a news result
ParseCalls ==
    {[op |-> "parse", query |-> q, item |-> it,
      data |-> [organic_results |-> <<it>>, news_results |-> <<it>>]] :
        q \in ScoreQueries, it \in ScoreItems}

\* a body with results of equal score: for the query "ai", the first and the
\* third organic result, the second and the fourth, the first and the third
\* news result, and the organic results at position 8 and the news results
\* with the same title; the sort has to move the news results in front of the
\* second organic result
PayloadTies ==
    [organic_results |->
        << [title |-> Chars("ai"), snippet |-> <<>>,
            link |-> Chars("https://example.com/1"), position |-> 8],
           [title |-> Chars("weather"), snippet |-> <<>>,
            link |-> Chars("https://example.com/2"), position |-> 9],
           [title |-> Chars("ai"), snippet |-> <<>>,
            link |-> Chars("https://example.com/3"), position |-> 8],
           [title |-> Chars("rain"), snippet |-> <<>>,
            link |-> Chars("https://example.com/4"), position |-> 9],
           [title |-> Chars("snow"), snippet |-> <<>>,
            link |-> Chars("https://example.com/5"), position |-> 10] >>,
     news_results |->
        << [title |-> Chars("ai"), snippet |-> <<>>,
            link |-> Chars("https://news.example.com/1")],
           [title |-> Chars("weather"), snippet |-> <<>>,
            link |-> Chars("https://news.example.com/2")],
           [title |-> Chars("ai"), snippet |-> <<>>,
            link |-> Chars("https://news.example.com/3")] >>]

\* calls of _parse_search_results on the body with equal scores
TieCalls ==
    {[op |-> "parse", query |-> q, data |-> PayloadTies] :
        q \in {Chars("ai"), Chars("latest AI news")}}

\* the call of search_and_rank that follows such a call
TieRankCalls ==
    {[op |-> "search_and_rank", query |-> Chars("ai"), search_type |-> "general",
      max_results |-> 15]}

\* the outcomes of the requests when the ranking is looked at: a body
\* without and a body with equal scores within the list, and a failure
SortOutcomes ==
    {[kind |-> "ok", data |-> PayloadA, took |-> 0],
     [kind |-> "ok", data |-> PayloadTies, took |-> 10],
     [kind |-> "timeout", took |-> request_timeout]}

SearchCalls ==
    {[op |-> "search", query |-> x[1], num_results |-> x[2], search_type |-> x[3]] :
        x \in {<<Chars("ai"), 10, "web">>, <<Chars("ai"), 10, "news">>,
               <<Chars("ai"), 5, "web">>}}

\* queries with 2, 3, 4 and 5 variants
RankQueries ==
    {<<Chars("ai"), "general">>,
     <<Chars("AI news?"), "news">>,
     <<<<\H6700, \H65b0>> \o Chars(" ai"), "general">>,
     <<<<\H6700, \H65b0, \H306e, \H30cb, \H30e5, \H30fc, \H30b9,
         \H306b, \H3064, \H3044, \H3066>>, "news">>}

RankLimits == {0, 1, 2, 15}

RankCalls ==
    {[op |-> "search_and_rank", query |-> x[1], search_type |-> x[2], max_results |-> m] :
        x \in RankQueries, m \in RankLimits}

\* the calls of search_and_rank when the ranking is looked at: every query,
\* with a limit that cuts the list and one that does not
SortRankCalls == {c \in RankCalls : c.max_results \in {2, 15}}

\* the outcomes of the requests of search_and_rank
RankOutcomes ==
    {[kind |-> "ok", data |-> PayloadA, took |-> 0],
     [kind |-> "ok", data |-> PayloadB, took |-> 10],
     [kind |-> "timeout", took |-> request_timeout]}

\* pieces of prompts
Fragments ==
    {<<\H6700, \H65b0>>, <<\H306e>>, <<\H30cb, \H30e5, \H30fc, \H30b9>>,
     <<\H306b, \H3064, \H3044, \H3066>>, Chars("NEWS "), Chars("snow"),
     <<\H7814, \H7a76>>, Chars("Study "), <<\H516c, \H5f0f>>, Chars("tech"),
     <<\H4e8b, \H4ef6>>, Chars("hello ")}

\* the texts built from at most n fragments
RECURSIVE Texts(_)
Texts(n) ==
    IF n = 0 THEN {<<>>}
    ELSE LET shorter == Texts(n - 1)
         IN  shorter \cup {t \o f : t \in shorter, f \in Fragments}

\* saishin no nyuusu ni tsuite ("about the latest news")
LatestNewsPrompt ==
    <<\H6700, \H65b0, \H306e, \H30cb, \H30e5, \H30fc, \H30b9,
      \H306b, \H3064, \H3044, \H3066>>

TriggerCalls ==
    {[op |-> "should_search", prompt |-> p] : p \in Texts(MaxFrags) \cup {LatestNewsPrompt}}

\* the files on disk during generate_response: two text files, a file with
\* an extension that is not supported, a file no encoding decodes, and a
\* directory
GenFs ==
    (Chars("./a.txt") :>
        [opens |-> TRUE, content |-> Chars("alpha\nbeta"), encoding |-> "utf-8",
         file_size |-> 10, last_modified |-> Chars("2025-12-31 23:59:59")])
    @@ (Chars("./data/b.MD") :>
        [opens |-> TRUE, content |-> Tuple([i \in 1..300 |-> 98]), encoding |-> "utf-8",
         file_size |-> 300, last_modified |-> Chars("2025-06-01 08:00:00")])
    @@ (Chars("./notes.doc") :>
        [opens |-> TRUE, content |-> Chars("notes"), encoding |-> "utf-8",
         file_size |-> 5, last_modified |-> Chars("2025-06-01 08:00:00")])
    @@ (Chars("./bad.txt") :>
        [opens |-> TRUE, content |-> None, encoding |-> "utf-8",
         file_size |-> 4, last_modified |-> Chars("2025-06-01 08:00:00")])
    @@ (Chars("./dir.txt") :>
        [opens |-> FALSE, content |-> None, encoding |-> "utf-8",
         file_size |-> 4096, last_modified |-> Chars("2025-06-01 08:00:00")])

\* the record with the one field key, for every value, and the empty record
Optional(key, values) == {<< >>} \cup {key :> v : v \in values}

\* prompt configurations: every key present or absent
GenConfigs ==
    {a @@ b @@ c @@ d :
        a \in Optional("additional_info_files",
                       {<<>>,
                        <<Chars("a.txt")>>,
                        <<Chars("missing.txt"), Chars("dir.txt"), Chars("bad.txt"),
                          Chars("notes.doc")>>,
                        <<Chars("data/b.MD"), Chars("missing.txt"), Chars("a.txt")>>}),
        b \in Optional("enable_web_search", BOOLEAN),
        c \in Optional("file_info_priority", {"high", "medium", "low"}),
        d \in Optional("max_file_content_length", {250})}

\* prompts without a trigger, with a trigger, and with a trigger and a type
GenPrompts == {<<>>, Chars("hello"), Chars("ai now"), Chars("AI news?")}

GenCalls ==
    {[op |-> "generate_response", prompt |-> p, prompt_config |-> cfg, fs |-> GenFs] :
        p \in GenPrompts, cfg \in GenConfigs}

\* the outcomes of the requests of the search of generate_response
GenOutcomes ==
    {[kind |-> "ok", data |-> PayloadA, took |-> 10],
     [kind |-> "timeout", took |-> request_timeout]}

\* what the model server answers, after took seconds: a stream of lines, or
\* the request fails
LlmReplies ==
    {[kind |-> "ok", ends |-> "eof", took |-> 2, lines |-> l] :
        l \in {<<>>,
               <<[kind |-> "json", data |-> [done |-> TRUE]]>>,
               <<[kind |-> "json", data |-> [response |-> Chars("Hi")]],
                 [kind |-> "empty"],
                 [kind |-> "malformed"],
                 [kind |-> "json", data |-> [response |-> Chars(" there"), done |-> TRUE]],
                 [kind |-> "json", data |-> [response |-> Chars("late")]]>>}}
    \cup {[kind |-> "transport", took |-> 0]}

\* queries for optimize_query: empty, only punctuation, only white space,
\* plain, and with keywords of the translation table
OptimizeQueries ==
    {<<>>, Chars("?!"), Chars("  "), Chars("ai"), Chars(" AI news? "),
     <<\H6700, \H65b0>> \o Chars(" ai"),
     Chars("AI ") \o <<\H3068, \H306f, \Hff1f>>,
     LatestNewsPrompt}

\* the search types, and one that has no modifier
OptimizeTypes == {"general", "news", "academic", "official", "technical", "recent"}

OptimizeCalls ==
    {[op |-> "optimize_query", original_query |-> q, search_type |-> t] :
        q \in OptimizeQueries, t \in OptimizeTypes}

\* lines of a stream: one of every kind, and objects with and without a
\* delta, with and without done
StreamLines ==
    {[kind |-> "empty"], [kind |-> "malformed"], [kind |-> "undecodable"],
     [kind |-> "json_value"],
     [kind |-> "json", data |-> [response |-> Chars("a")]],
     [kind |-> "json", data |-> [response |-> Chars("b"), done |-> TRUE]],
     [kind |-> "json", data |-> [response |-> <<>>, done |-> FALSE]]}

\* the streams of at most n lines
RECURSIVE Streams(_)
Streams(n) ==
    IF n = 0 THEN {<<>>}
    ELSE LET shorter == Streams(n - 1)
         IN  shorter \cup {Append(s, l) : s \in shorter, l \in StreamLines}

\* replies to the request of _generate_llm_response: a stream that ends or
\* breaks off, or a request that fails
StreamReplies ==
    {[kind |-> "ok", ends |-> e, took |-> 2, lines |-> l] :
        e \in {"eof", "broken"}, l \in Streams(MaxLines)}
    \cup {[kind |-> k, took |-> 0] : k \in {"status", "transport"}}
    \cup {[kind |-> "timeout", took |-> llm_timeout]}

StreamCalls == {[op |-> "generate_llm_response", prompt |-> p] : p \in GenPrompts}

\* a loaded file of n characters
SampleInfo(name, n) ==
    [file_path |-> Chars("./") \o name,
     content |-> Tuple([i \in 1..n |-> 120]),
     encoding |-> "utf-8",
     file_size |-> n,
     last_modified |-> Chars("2025-12-31 23:59:59")]

\* lists of loaded files: one file, short to long, and two files
FormatInfos ==
    {<<SampleInfo(Chars("a.txt"), n)>> : n \in {1, 20, 150, 250, 400}}
    \cup {<<SampleInfo(Chars("a.txt"), 20), SampleInfo(Chars("b.md"), 400)>>}

\* values of max_length: the small ones, those around the length at which
\* the content starts to be cut to fit, and large ones
FormatLimits == (0..60) \cup (185..200) \cup {249, 250, 300, 399, 400, 3000}

FormatCalls ==
    {[op |-> "format_file_context", additional_infos |-> infos, max_length |-> m] :
        infos \in FormatInfos, m \in FormatLimits}

\* the outcomes of the requests when every search succeeds
RepeatOutcomes == {o \in RankOutcomes : o.kind = "ok"}

-----------------------------------------------------------------------------
(* Specifications *)

\* parse_search_results on one item
InitScore == google_search = TRUE /\ \E c \in ParseCalls : Called(c)

NextScore == Parse

SpecScore == InitScore /\ [][NextScore]_vars

\* should_search on one prompt
InitTrigger == google_search = TRUE /\ \E c \in TriggerCalls : Called(c)

NextTrigger == ShouldSearch

SpecTrigger == InitTrigger /\ [][NextTrigger]_vars

\* direct calls of search, the clock advancing between them
InitSearch == Init /\ google_search = TRUE

NextSearch ==
    \/ \E c \in SearchCalls : Invoke(c)
    \/ \E o \in Outcomes : Search(o)
    \/ \E d \in ClockSteps : AdvanceClock(d)

SpecSearch == InitSearch /\ [][NextSearch]_vars

\* one call of search_and_rank
InitRank == google_search \in BOOLEAN /\ \E c \in RankCalls : Called(c)

NextRank ==
    \/ RankNoClient
    \/ RankStart
    \/ \E o \in RankOutcomes : RankIterate(o)
    \/ RankFinish

SpecRank == InitRank /\ [][NextRank]_vars

\* one call of generate_response
InitGen == google_search \in BOOLEAN /\ \E c \in GenCalls : Called(c)

NextGen ==
    \/ GenFiles
    \/ GenSkipSearch
    \/ GenStartSearch
    \/ \E o \in GenOutcomes : RankIterate(o)
    \/ RankFinish
    \/ GenMerge
    \/ \E r \in LlmReplies : GenRespond(r)

SpecGen == InitGen /\ [][NextGen]_vars

\* one call of optimize_query
InitOptimize == google_search = TRUE /\ \E c \in OptimizeCalls : Called(c)

NextOptimize == OptimizeQuery

SpecOptimize == InitOptimize /\ [][NextOptimize]_vars

\* one call of _generate_llm_response
InitStream == google_search = TRUE /\ \E c \in StreamCalls : Called(c)

NextStream == \E r \in StreamReplies : GenerateLlmResponse(r)

SpecStream == InitStream /\ [][NextStream]_vars

\* one call of _parse_search_results, followed or not by a call of
\* search_and_rank, or one call of search_and_rank
InitSort ==
    \/ InitScore
    \/ google_search = TRUE /\ \E c \in SortRankCalls : Called(c)
    \/ google_search = TRUE /\ \E c \in TieCalls : Called(c)

NextSort ==
    \/ Parse
    \/ \E c \in TieRankCalls : RankAfterParse(c)
    \/ RankStart
    \/ \E o \in SortOutcomes : RankIterate(o)
    \/ RankFinish

SpecSort == InitSort /\ [][NextSort]_vars

\* one call of format_file_context
InitFormat == google_search = TRUE /\ \E c \in FormatCalls : Called(c)

NextFormat == FormatFileContext

SpecFormat == InitFormat /\ [][NextFormat]_vars

\* search_and_rank called repeatedly with the same arguments on one instance,
\* every search succeeding; time passes in the requests and in the pauses of
\* the loop only
InitRepeat == google_search = TRUE /\ \E c \in RankCalls : Called(c)

NextRepeat ==
    \/ RankStart
    \/ \E o \in RepeatOutcomes : RankIterate(o)
    \/ RankFinish
    \/ CallAgain

SpecRepeat == InitRepeat /\ [][NextRepeat]_vars

-----------------------------------------------------------------------------
(* Properties *)

\* search_and_rank has returned to its caller, having had a search client
RankReturned == pc = "idle" /\ call.op = "search_and_rank" /\ google_search

\* search has returned
SearchReturned == pc = "idle" /\ call.op = "search"

\* parse_search_results has returned a list
ParseReturned == pc = "idle" /\ call.op = "parse" /\ ~sr.raised

\* the index of the first result of rs with the URL u
FirstWithUrl(rs, u) ==
    CHOOSE i \in 1..Len(rs) : rs[i].url = u /\ \A j \in 1..(i - 1) : rs[j].url # u

OneHour == 60 * 60

\* C1: the list search_and_rank returns has at most max_results elements and
\* its relevance scores never increase from one element to the next.
C1_BoundedAndSorted ==
    (pc = "idle" /\ call.op = "search_and_rank") =>
        /\ Len(ret) <= call.max_results
        /\ \A i \in 1..(Len(ret) - 1) :
                FLeq(ret[i + 1].relevance_score, ret[i].relevance_score)

\* C1 witness: more unique results than max_results = 2 were collected, out of
\* score order, and two with different scores were returned
C1_Witness ==
    /\ RankReturned
    /\ call.max_results = 2
    /\ Len(sr.unique_results) > 2
    /\ \E i \in 1..(Len(sr.unique_results) - 1) :
            FLess(sr.unique_results[i].relevance_score,
                  sr.unique_results[i + 1].relevance_score)
    /\ Len(ret) = 2
    /\ FLess(ret[2].relevance_score, ret[1].relevance_score)

\* C2: the deduplicated list, and the list search_and_rank returns, hold no
\* two results with one URL; each result kept is the earliest collected one
\* with its URL, and every collected URL is kept by the deduplication.
C2_FirstPerUrl ==
    RankReturned =>
        LET all == sr.all_results
            uniq == sr.unique_results
        IN  /\ \A i, j \in 1..Len(uniq) : uniq[i].url = uniq[j].url => i = j
            /\ \A i \in 1..Len(uniq) : uniq[i] = all[FirstWithUrl(all, uniq[i].url)]
            /\ \A k \in 1..Len(all) : \E i \in 1..Len(uniq) : uniq[i].url = all[k].url
            /\ \A i, j \in 1..Len(ret) : ret[i].url = ret[j].url => i = j
            /\ \A i \in 1..Len(ret) : ret[i] = all[FirstWithUrl(all, ret[i].url)]

\* C2 witness: one URL was collected twice with different scores, and a result
\* with that URL was returned
C2_Witness ==
    /\ RankReturned
    /\ \E i, j \in 1..Len(sr.all_results) :
            /\ i < j
            /\ sr.all_results[i].url = sr.all_results[j].url
            /\ sr.all_results[i].relevance_score # sr.all_results[j].relevance_score
            /\ \E k \in 1..Len(ret) : ret[k].url = sr.all_results[i].url

\* C3: search issues no request and returns the stored list when the cache
\* holds an entry for the same (query, count, type) stored less than one hour
\* before the call; otherwise it issues exactly one request and, when that
\* succeeds (the answer is received and parsed into a list), stores the
\* returned list with the current time, which is the time at which the
\* answer has been parsed and the call returns.
C3_CacheWithinOneHour ==
    SearchReturned =>
        LET key == cache_key(call.query, call.num_results, call.search_type)
            before == sr.cache_before
        IN  IF key \in DOMAIN before /\ sr.time - before[key].timestamp < OneHour
            THEN /\ http = <<>>
                 /\ ret = before[key].results
                 /\ cache = before
                 /\ sr.returned = sr.time
            ELSE /\ Len(http) = 1
                 /\ sr.returned = sr.time + http[1].took
                 /\ http[1].parsed =>
                        /\ key \in DOMAIN cache
                        /\ cache[key] = [results |-> ret, timestamp |-> sr.returned]

\* C3 witness: a non-empty list, stored at the end of a request that took
\* time, one second less than an hour before the call, was returned without
\* a request
C3_Witness ==
    /\ SearchReturned
    /\ http = <<>>
    /\ ret # <<>>
    /\ LET key == cache_key(call.query, call.num_results, call.search_type)
       IN  /\ key \in DOMAIN sr.cache_before
           /\ sr.cache_before[key].timestamp > 0
           /\ sr.time - sr.cache_before[key].timestamp = OneHour - 1

\* C4: when the request of search fails, or its answer cannot be parsed into
\* results, search returns the empty list and leaves the cache as it was, so
\* that the cache holds no fresh entry for the call and the same call made
\* again issues a request.
C4_FailureNotCached ==
    (/\ SearchReturned
     /\ Len(http) = 1
     /\ (http[1].outcome \in FailureKinds \/ ~http[1].parsed)) =>
        LET key == cache_key(call.query, call.num_results, call.search_type)
        IN  /\ ret = <<>>
            /\ cache = sr.cache_before
            /\ ~(key \in DOMAIN cache /\ sr.returned - cache[key].timestamp < OneHour)

\* C4 witness: a request timed out while the cache held an expired entry for
\* the same call
C4_Witness ==
    /\ SearchReturned
    /\ Len(http) = 1
    /\ http[1].outcome = "timeout"
    /\ cache_key(call.query, call.num_results, call.search_type) \in DOMAIN cache

\* C5: an organic result is scored from 0 to 1.0, a news result 0.1 higher
\* than a score from 0 to 1.0, whatever the texts and the position.
C5_ScoreRange ==
    ParseReturned =>
        \A i \in 1..Len(ret) :
            IF ret[i].source = Chars("Google News")
            THEN /\ FLeq(FOfRatio(1, 10), ret[i].relevance_score)
                 /\ FLeq(ret[i].relevance_score, FOfRatio(11, 10))
            ELSE /\ FLeq(FZero, ret[i].relevance_score)
                 /\ FLeq(ret[i].relevance_score, FOfNat(1))

\* C5 witness: an item of position below 1 whose terms sum to more than 1.0:
\* the organic result scores 1.0 and the news result 1.1
C5_Witness ==
    /\ ParseReturned
    /\ "position" \in DOMAIN call.item
    /\ call.item.position < 1
    /\ Len(ret) = 2
    /\ ret[1].source = Chars("Google News")
    /\ ret[1].relevance_score = FOfRatio(11, 10)
    /\ ret[2].relevance_score = FOfNat(1)

\* should_search has returned
TriggerReturned == pc = "idle" /\ call.op = "should_search"

\* the search types in the order they are tried, each with its keywords
TypeOrder ==
    << <<"news", news_keywords>>, <<"academic", academic_keywords>>,
       <<"official", official_keywords>>, <<"technical", technical_keywords>> >>

\* C8: should_search answers needs_search exactly when the lower-cased prompt
\* contains a trigger keyword, and as search type the first of news, academic,
\* official, technical with a keyword in the lower-cased prompt, else general;
\* the prompt "saishin no nyuusu ni tsuite" gives (true, news).
C8_TriggerAndFirstType ==
    TriggerReturned =>
        LET text == Lower(call.prompt)
            hits == {k \in 1..Len(TypeOrder) : \E w \in TypeOrder[k][2] : Contains(text, w)}
        IN  /\ ret.needs_search <=> (\E t \in search_triggers : Contains(text, t))
            /\ ret.search_type =
                    IF hits = {} THEN "general"
                    ELSE TypeOrder[CHOOSE k \in hits : \A m \in hits : k <= m][1]
            /\ call.prompt = LatestNewsPrompt =>
                    ret = [needs_search |-> TRUE, search_type |-> "news"]

\* C8 witness: a prompt with an academic keyword before an upper-case news
\* keyword was classified as news and as needing a search
C8_Witness ==
    /\ TriggerReturned
    /\ call.prompt = <<\H7814, \H7a76>> \o Chars("NEWS ")
    /\ ret = [needs_search |-> TRUE, search_type |-> "news"]

\* C9: in one search_and_rank call a pause follows a variant query exactly
\* when another variant query follows it; none follows the last query.
C9_PauseOnlyBetweenQueries ==
    RankReturned =>
        LET e == sr.events
        IN  \A k \in 1..Len(e) :
                e[k].ev = "query" =>
                    ((k < Len(e) /\ e[k + 1].ev = "sleep")
                        <=> (\E m \in (k + 1)..Len(e) : e[m].ev = "query"))

\* C10: the position term of a parsed result is max(0, (10 - position) * 0.05)
\* for the position of its provider item, taken as 10 when the item has none.
C10_PositionTerm ==
    ParseReturned =>
        \A i \in 1..Len(ret) :
            LET position == Get(call.item, "position", 10)
            IN  position_term(ret[i]) =
                    IF position >= 10 THEN FZero
                    ELSE FMul(FOfNat(10 - position), FOfRatio(5, 100))

\* generate_response has merged the contexts and built the final prompt
GenMerged == call.op = "generate_response" /\ pc \in {"gr_llm", "idle"}

\* generate_response has returned
GenReturned == call.op = "generate_response" /\ pc = "idle"

\* C6: in generate_response the merged context is exactly the search context
\* followed by the file context when file_info_priority is "low", and exactly
\* the file context followed by the search context when it is "high",
\* "medium" or absent, nothing being inserted between or around the two.
C6_MergeOrder ==
    GenMerged =>
        /\ ("file_info_priority" \in DOMAIN call.prompt_config
                /\ call.prompt_config["file_info_priority"] = "low")
            => gr.combined_context = gr.search_context \o gr.file_context
        /\ ("file_info_priority" \notin DOMAIN call.prompt_config
                \/ call.prompt_config["file_info_priority"] \in {"high", "medium"})
            => gr.combined_context = gr.file_context \o gr.search_context

\* both contexts are non-empty, the priority is "low", and the search context
\* comes first
C6_Witness ==
    /\ GenMerged
    /\ Get(call.prompt_config, "file_info_priority", "high") = "low"
    /\ gr.file_context # <<>>
    /\ gr.search_context # <<>>
    /\ gr.combined_context = gr.search_context \o gr.file_context
    /\ gr.combined_context # gr.file_context \o gr.search_context

\* C7: when no additional file is configured or none loads, and web search is
\* disabled, or there is no search client, or no trigger keyword matches, or
\* the search returns no results, the prompt sent to the model is exactly the
\* original prompt; the template is used only when the merged context is not
\* empty.
C7_PromptUnchangedWithoutContext ==
    GenReturned =>
        LET sent == http[Len(http)].request.prompt
            file_paths == Get(call.prompt_config, "additional_info_files", <<>>)
            no_files == file_paths = <<>> \/ load_additional_info(call.fs, file_paths) = <<>>
            no_search == \/ ~Get(call.prompt_config, "enable_web_search", FALSE)
                         \/ ~google_search
                         \/ ~should_search(call.prompt).needs_search
                         \/ gr.search_results = <<>>
            templated == gr.combined_context \o TemplateLead \o call.prompt \o TemplateTail
        IN  /\ (no_files /\ no_search) => sent = call.prompt
            /\ sent = templated => gr.combined_context # <<>>
            /\ sent # templated => (sent = call.prompt /\ gr.combined_context = <<>>)

\* files were configured but none loaded, the search ran and every request
\* failed, and the model received the original prompt
C7_Witness ==
    /\ GenReturned
    /\ Get(call.prompt_config, "additional_info_files", <<>>) # <<>>
    /\ gr.additional_infos = <<>>
    /\ gr.searched
    /\ Len(sr.events) > 0
    /\ gr.search_results = <<>>
    /\ call.prompt # <<>>
    /\ http[Len(http)].request.prompt = call.prompt

\* optimize_query has returned
OptimizeReturned == pc = "idle" /\ call.op = "optimize_query"

\* C11: for every original query, the empty one and one made only of
\* punctuation or white space included, and every search type, optimize_query
\* returns variants without duplicates, each a non-empty string without
\* leading or trailing white space.
C11_VariantsTrimmed ==
    OptimizeReturned =>
        /\ \A i, j \in 1..Len(ret) : ret[i] = ret[j] => i = j
        /\ \A i \in 1..Len(ret) :
                /\ ret[i] # <<>>
                /\ ~IsSpace(ret[i][1])
                /\ ~IsSpace(ret[i][Len(ret[i])])

\* _generate_llm_response has returned
StreamReturned == pc = "idle" /\ call.op = "generate_llm_response"

\* C12: for any sequence of lines of the streamed response, the text emitted
\* by _generate_llm_response is the in-order concatenation of the non-empty
\* response deltas of the lines that parse as JSON, up to and including the
\* first line whose done is true; a line that fails to parse is skipped and
\* the lines after it are still processed; a transport failure ends the call
\* with one error message.
C12_StreamEmission ==
    StreamReturned =>
        LET reply == http[Len(http)].reply
        IN  IF reply.kind # "ok" THEN ret.out = <<>> /\ ret.errors = 1
            ELSE
            LET lines == reply.lines
                dones == {i \in 1..Len(lines) :
                            lines[i].kind = "json" /\ Get(lines[i].data, "done", FALSE)}
                last == IF dones = {} THEN Len(lines)
                        ELSE CHOOSE i \in dones : \A j \in dones : i <= j
                delta(i) == IF lines[i].kind = "json"
                            THEN Get(lines[i].data, "response", <<>>) ELSE <<>>
                E[i \in 0..last] == IF i = 0 THEN <<>> ELSE E[i - 1] \o delta(i)
            IN  /\ ret.out = E[last]
                /\ (reply.ends = "broken" /\ dones = {}) => ret.errors = 1

\* the place of the result r in the list rs
Place(rs, r) == CHOOSE k \in 1..Len(rs) : rs[k] = r /\ \A n \in 1..(k - 1) : rs[n] # r

\* two results of one list of equal score
Tie(rs, i, j) == i < j /\ rs[i].relevance_score = rs[j].relevance_score

\* C13: in the output of search_and_rank, and of the ranking inside
\* _parse_search_results, two results of equal relevance score appear in the
\* order in which they were collected before the sort: for search_and_rank,
\* the variants in query order and, within a variant, the order of the list
\* search returned; for _parse_search_results, the order of the list before
\* the sort, which holds the organic results in the order of the payload and
\* then the news results, so that of two results of equal score an organic
\* one never follows a news one.
C13_TiesKeepCollectedOrder ==
    /\ RankReturned =>
            \A i, j \in 1..Len(ret) :
                (i < j /\ ret[i].relevance_score = ret[j].relevance_score)
                    => FirstWithUrl(sr.all_results, ret[i].url)
                        < FirstWithUrl(sr.all_results, ret[j].url)
    /\ ParseReturned =>
            /\ Len(ret) = Len(sr.collected)
            /\ \A i \in 1..Len(ret) : \E k \in 1..Len(sr.collected) : sr.collected[k] = ret[i]
            /\ \A i, j \in 1..Len(ret) :
                    Tie(ret, i, j) =>
                        /\ Place(sr.collected, ret[i]) < Place(sr.collected, ret[j])
                        /\ ~(ret[i].source = Chars("Google News")
                             /\ ret[j].source = Chars("Google Search"))

\* _parse_search_results returned a list the sort had rearranged, with two
\* organic results of equal score, two news results of equal score and an
\* organic and a news result of equal score, each pair in the order collected;
\* search_and_rank, called next, returned two results of one variant with
\* equal score above 0, and two results of different variants with equal
\* score, each pair in the order collected
C13_Witness ==
    /\ RankReturned
    /\ gr.op = "parse_caller"
    /\ gr.parsed # gr.collected
    /\ \A a \in {Chars("Google Search"), Chars("Google News")} :
       \A b \in {Chars("Google Search"), Chars("Google News")} :
            (a = Chars("Google Search") \/ b = Chars("Google News")) =>
                \E i, j \in 1..Len(gr.parsed) :
                    /\ Tie(gr.parsed, i, j)
                    /\ gr.parsed[i].source = a
                    /\ gr.parsed[j].source = b
                    /\ Place(gr.collected, gr.parsed[i]) < Place(gr.collected, gr.parsed[j])
    /\ \E i, j \in 1..Len(ret) :
            /\ Tie(ret, i, j)
            /\ ret[i].id[1] = ret[j].id[1]
            /\ FLess(FZero, ret[i].relevance_score)
            /\ ret[i].url # ret[j].url
            /\ FirstWithUrl(sr.all_results, ret[i].url)
                < FirstWithUrl(sr.all_results, ret[j].url)
    /\ \E i, j \in 1..Len(ret) :
            /\ Tie(ret, i, j)
            /\ ret[i].id[1] # ret[j].id[1]
            /\ ret[i].url # ret[j].url
            /\ FirstWithUrl(sr.all_results, ret[i].url)
                < FirstWithUrl(sr.all_results, ret[j].url)

\* format_file_context has returned
FormatReturned == pc = "idle" /\ call.op = "format_file_context"

\* C14: for format_file_context called with a single file whose content is
\* longer than max_length, for every max_length >= 0, the returned string is
\* longer than max_length by at most the length of one "files omitted" line
\* plus the footer, and it contains a truncation mark: the ellipsis after the
\* cut content, or the line "1 files omitted".
C14_SingleFileBound ==
    (/\ FormatReturned
     /\ Len(call.additional_infos) = 1
     /\ call.max_length >= 0
     /\ Len(call.additional_infos[1].content) > call.max_length)
    => /\ Len(ret) - call.max_length <= Len(files_omitted(1)) + Len(FileContextClose)
       /\ \/ \E k \in 0..Len(call.additional_infos[1].content) :
                Contains(ret, Prefix(call.additional_infos[1].content, k) \o Ellipsis
                              \o Chars("\n\n"))
          \/ Contains(ret, files_omitted(1))

\* search_and_rank has returned from a call that repeats an earlier one
RepeatReturned == RankReturned /\ gr.op = "caller"

\* the results of variant i (from 0) as parsed from the payload of outcome o,
\* with the decay of the variant applied once
DecayedOnce(o, i) == decay(parse_search_results(o.data, sr.optimized_queries[i + 1]), i)

\* the fields of a result, without the identity of the object
Fields(result) == [f \in DOMAIN result \ {"id"} |-> result[f]]

\* C15: the scores of cached results do not change after they are stored: a
\* second search_and_rank call with the same query, search type and
\* max_results, on the same instance within the cache TTL and with every
\* search succeeding, returns the results of the first call with the same
\* relevance scores, each the score computed at parsing times
\* (1 - 0.1 * variant_index), applied once.
C15_CachedScoresStable ==
    RepeatReturned =>
        /\ Len(ret) = Len(gr.first_scores)
        /\ \A k \in 1..Len(ret) :
              /\ ret[k].id = gr.first[k].id
              /\ ret[k].relevance_score = gr.first_scores[k]
        /\ now < cache_duration
        /\ \A k \in 1..Len(ret) :
              \E o \in RepeatOutcomes, i \in 0..(visited(sr.optimized_queries) - 1) :
                 \E n \in 1..Len(DecayedOnce(o, i)) :
                    DecayedOnce(o, i)[n] = Fields(ret[k])
====
